---- MODULE Spec2Model ----
(***************************************************************************)
(* The realtime gateway of hindsightchat/backend: the websocket Hub (its   *)
(* indices, the Run loop, register/unregister), the Client (session state, *)
(* the buffered send channel, ReadPump and WritePump), the frame handlers  *)
(* and the fan-out paths, with the goroutines of the program as threads    *)
(* whose steps are the blocks between two accesses to shared state.        *)
(***************************************************************************)
EXTENDS Integers, Sequences, FiniteSets, TLC

\* ------------------------------------------------------------- bounds
NumClients == 2
NumUsers == 2
NumServers == 2
NumChannels == 1
NumConvs == 1
\* capacity of Client.send in the model; the program's is 256 (client.go:50)
SendCap == 1
\* rows the message tables may hold
MaxMsgs == 1
\* ticks of the clock in one presenceTTL (5 minutes, part_001:259)
TTLTicks == 2
\* ticks of the clock in one pongWait (60 seconds, client.go:16)
ReadTicks == 2
\* capacity of Client.send where the write pump is to batch frames
BatchCap == 2
\* the last reading of the server's clock
MaxNow == 2

\* ticks of the clock in the ttl of the user cache (5 minutes, userroutes.go:875)
CacheTTL == 2
\* no Set of the key, or a Delete or a Clear since
Never == CacheTTL + 1

Nil == 0
Clients == 1..NumClients
Users == 1..NumUsers
Servers == 1..NumServers
Channels == 1..NumChannels
Convs == 1..NumConvs
\* a reader goroutine is named by its client; the goroutines a session starts
\* (broadcastPresenceChange at Identify; SetOffline and broadcastPresenceChange
\* at unregister) and the request that creates a conversation have names of
\* their own, since each starts at most once
OnlineTask(c) == NumClients + c
OfflineBcast(c) == 2 * NumClients + c
OfflineSet(c) == 3 * NumClients + c
GdmTask(k) == 4 * NumClients + k
\* the broadcastPresenceChange a PresenceUpdate frame starts: the session sends
\* the next such frame when that goroutine has returned
UpdateTask(c) == 4 * NumClients + NumConvs + c
TaskIds == (NumClients + 1)..(5 * NumClients + NumConvs)
Threads == Clients \cup TaskIds
\* the goroutine of Hub.Run (started by NewHub's caller, hub.go:49)
HubThread == 5 * NumClients + NumConvs + 1
\* the REST handlers that notify the members of a group DM
Notifiers == {GdmTask(k) : k \in Convs}
\* a goroutine of broadcastPresenceChange
Broadcasters == {OnlineTask(1)}
\* the goroutines that take Hub.mu or a Client.mu
LockThreads == Clients \cup Notifiers \cup Broadcasters \cup {HubThread}
\* a sync.RWMutex: the goroutine that holds it for writing, those that hold it
\* for reading
FreeMu == [w |-> Nil, r |-> {}]
\* where a goroutine stands with the locks, and the session whose mutex it
\* wants or holds
LkAt(pc, x) == [pc |-> pc, x |-> x]

VARIABLES
    \* Hub (hub.go:12-23)
    clients, userClients, serverClients, conversationClients,
    \* Client fields (client.go:21-44)
    identified, userID, servers, conversations,
    status, activity,
    focusedChannel, focusedServer, focusedConversation,
    send, closed, conn,
    \* cap(c.send), the same for every client (NewClient, client.go:50)
    cap,
    \* goroutines: Hub.Run, ReadPump, WritePump, `go` tasks and REST handlers
    hubPc, rpc, rtodo, rmsg, wpc, wn, wbuf, tasks, fo,
    \* the presence store and the durable store
    presence, dbParticipants, dbLastRead, channelMessages, directMessages,
    \* the server_members table: the servers of each user
    dbServerMembers,
    \* per connection: the ticks left until its read deadline (client.go:193-198)
    \* and the ticks since it was accepted
    deadline, age,
    \* the server's clock: what time.Now().UnixMilli() returns
    now,
    \* Hub.mu, each Client.mu, and where each goroutine stands with the locks
    mu, cmu, lk,
    \* UserCache (userroutes.go:811-815): the keys of its map, the goroutines of
    \* Set that sleep, the REST requests between their Get and their Set, and
    \* for each key the ticks since its latest Set that no Delete or Clear followed
    cache, expiry, req, lastSet,
    \* the process: "none" while it runs, else the runtime's fatal error
    fatal

hubVars == <<clients, userClients, serverClients, conversationClients>>
cliVars == <<identified, userID, servers, conversations>>
focusVars == <<focusedChannel, focusedServer, focusedConversation>>
presVars == <<status, activity>>
timeVars == <<deadline, age, now>>
lockVars == <<mu, cmu, lk>>
cacheVars == <<cache, expiry, req, lastSet>>
chanVars == <<send, closed>>
readVars == <<rpc, rtodo, rmsg>>
writeVars == <<wpc, wn, wbuf>>
dbVars == <<dbParticipants, dbLastRead, channelMessages, directMessages>>

vars == <<clients, userClients, serverClients, conversationClients,
          identified, userID, servers, conversations, status, activity,
          focusedChannel, focusedServer, focusedConversation,
          send, closed, conn, cap, hubPc, rpc, rtodo, rmsg, wpc, wn, wbuf, tasks, fo,
          presence, dbParticipants, dbLastRead, channelMessages, directMessages,
          dbServerMembers, deadline, age, now, mu, cmu, lk,
          cache, expiry, req, lastSet, fatal>>

\* ------------------------------------------------------------- data

\* the channels table: the server a channel belongs to
ChannelServer(ch) == ((ch - 1) % NumServers) + 1

\* the server_members table: not written by any code path of the gateway
dbMembers(u) == dbServerMembers[u]

\* the servers that own a channel
OwningServers == {ChannelServer(ch) : ch \in Channels}

\* the user_tokens and users tables, not written by the gateway. Token 0 is
\* the missing token "", the token of user u is u, the token after those names
\* a user whose row is gone, the last one is unknown or expired
Tokens == 0..(NumUsers + 2)
\* a lookup that finds a user for every token that is not empty
TokenIgnored(token) == IF token = Nil THEN Nil ELSE 1
GetUserIDFromToken(token) == IF token \in 1..(NumUsers + 1) THEN token ELSE Nil
UserExists(u) == u \in Users

\* the statuses handlePresenceUpdate accepts
\* a validation that lets every status through
anyStatus == {"online", "idle", "dnd", "offline", "", "away"}

validStatuses == {"online", "idle", "dnd", "offline"}

\* a key of the presence store: PresenceData{Status, Activity} and the time the
\* key has left to live, 0 for a key that does not exist. wttl is what is left
\* of one TTL since the last Set of the key, whether the key exists or not
NoPresence == [status |-> "", activity |-> Nil, ttl |-> 0, wttl |-> 0]
PresenceExists(u) == presence[u].ttl > 0

\* a frame on the wire: Message{Op, Event, Data} reduced to what the handlers set
\* (d is the id or the code the payload carries, s what else tells payloads apart)
ErrorFrame(code) == [op |-> "Dispatch", t |-> "", d |-> code, s |-> "error"]
DispatchFrame(event, data, st) == [op |-> "Dispatch", t |-> event, d |-> data, s |-> st]
OpFrame(op) == [op |-> op, t |-> "", d |-> Nil, s |-> ""]
AckFrame == [op |-> "Dispatch", t |-> "", d |-> Nil, s |-> "ack"]

NoFo == [idx |-> "none", id |-> Nil, ev |-> "", mode |-> "all", arg |-> Nil, d |-> Nil,
         st |-> "",
         snap |-> {}, pend |-> {}, vis |-> {}, cur |-> Nil, att |-> FALSE,
         log |-> [c \in Clients |-> <<>>]]


\* a goroutine: its position, its arguments (u, id, st), the ids it has yet
\* to range over, and for the notifier the participants left and the clients
\* GetUserClients returned
Task(type, pc, u, id, st, todo) ==
    [type |-> type, pc |-> pc, u |-> u, id |-> id, st |-> st, todo |-> todo,
     parts |-> <<>>, list |-> {}]
NoTask == Task("free", "", Nil, Nil, "", {})

\* a frame read from the connection: Message{Op, Data, Nonce} with the payload
\* fields the handlers read (0 for a field the payload leaves out)
Msg(op, token, ch, srv, conv, nonce) ==
    [op |-> op, token |-> token, ch |-> ch, srv |-> srv, conv |-> conv,
     nonce |-> nonce, id |-> Nil, st |-> "", act |-> Nil, ts |-> 0]
NoMsg == Msg("", Nil, Nil, Nil, Nil, FALSE)

InitStore(n, members) ==
    /\ cap = n
    /\ dbServerMembers = members
    /\ clients = {}
    /\ userClients = [u \in Users |-> {}]
    /\ serverClients = [v \in Servers |-> {}]
    /\ conversationClients = [k \in Convs |-> {}]
    /\ identified = [c \in Clients |-> FALSE]
    /\ userID = [c \in Clients |-> Nil]
    /\ servers = [c \in Clients |-> {}]
    /\ conversations = [c \in Clients |-> {}]
    /\ status = [c \in Clients |-> "online"]
    /\ activity = [c \in Clients |-> Nil]
    /\ focusedChannel = [c \in Clients |-> Nil]
    /\ focusedServer = [c \in Clients |-> Nil]
    /\ focusedConversation = [c \in Clients |-> Nil]
    /\ send = [c \in Clients |-> <<>>]
    /\ closed = [c \in Clients |-> FALSE]
    /\ conn = [c \in Clients |-> "none"]
    /\ hubPc = <<"select", Nil>>
    /\ rpc = [c \in Clients |-> "off"]
    /\ rtodo = [c \in Clients |-> {}]
    /\ rmsg = [c \in Clients |-> NoMsg]
    /\ wpc = [c \in Clients |-> "off"]
    /\ wn = [c \in Clients |-> 0]
    /\ wbuf = [c \in Clients |-> <<>>]
    /\ tasks = [t \in TaskIds |-> NoTask]
    /\ fo = [th \in Threads |-> NoFo]
    /\ presence = [u \in Users |-> NoPresence]
    /\ dbParticipants \in [Convs -> {{}, Users}]
    /\ dbLastRead = {}
    /\ channelMessages = {}
    /\ directMessages = {}
    /\ deadline = [c \in Clients |-> 0]
    /\ age = [c \in Clients |-> 0]
    /\ now = 0
    /\ mu = FreeMu
    /\ cmu = [c \in Clients |-> FreeMu]
    /\ lk = [th \in LockThreads |-> IF th \in Clients THEN LkAt("off", Nil)
                                     ELSE IF th = HubThread THEN LkAt("select", Nil)
                                     ELSE LkAt("idle", Nil)]
    /\ cache = {}
    /\ expiry = {}
    /\ req = [r \in Clients |-> Nil]
    /\ lastSet = [u \in Users |-> Never]
    /\ fatal = "none"

\* every user is a member of the servers that own a channel
InitCap(n) == InitStore(n, [u \in Users |-> OwningServers])

\* the channels of the model hold SendCap frames
Init == InitCap(SendCap)


\* ------------------------------------------------------------- helpers

others == <<clients, userClients, serverClients, conversationClients,
            identified, userID, servers, conversations, status, activity,
            focusedChannel, focusedServer, focusedConversation,
            send, closed, conn, cap, hubPc, rpc, rtodo, rmsg, wpc, wn, wbuf, tasks, fo,
            presence, dbParticipants, dbLastRead, channelMessages, directMessages,
            dbServerMembers, deadline, age, now, mu, cmu, lk,
            cache, expiry, req, lastSet>>

\* the Go runtime ends the process: an unrecovered panic or a fatal error
Crash(msg) == fatal' = msg /\ UNCHANGED others

Min(S) == CHOOSE x \in S : \A y \in S : x <= y

IndexOf(idx) ==
    CASE idx = "user" -> userClients
      [] idx = "server" -> serverClients
      [] idx = "conv" -> conversationClients

\* a goroutine is ranging over the map object the hub holds at idx[id]
IterOn(idx, id) ==
    \E th \in Threads : fo[th].idx = idx /\ fo[th].id = id /\ fo[th].att /\ fo[th].cur # Nil

\* delete(h.xClients, id): ranges over that map object no longer see the hub's entries
Detach(f, idx, gone) ==
    IF f.idx = idx /\ f.id \in gone THEN [f EXCEPT !.att = FALSE] ELSE f



\* ------------------------------------------------------------- Client.Send

\* a queue without a bound
EnqueueUnbounded(q, f) == Append(q, f)

\* select { case c.send <- data: default: } on an open channel
Enqueue(q, f) == IF Len(q) < cap THEN Append(q, f) ELSE q

\* a panic in goroutine th: net/http recovers it in a REST handler, the
\* goroutines started with `go` (ReadPump, broadcastPresenceChange) end the process
Panic(th) ==
    IF th \in TaskIds /\ tasks[th].type = "groupdm"
    THEN /\ tasks' = [tasks EXCEPT ![th] = NoTask]
         /\ fo' = [fo EXCEPT ![th] = NoFo]
         /\ UNCHANGED <<hubVars, cliVars, focusVars, presVars, timeVars, lockVars, cacheVars, dbServerMembers, cap, chanVars, conn, hubPc, readVars,
                        writeVars, presence, dbVars, fatal>>
    ELSE Crash("send on closed channel")

\* Client.Send by the reader of c itself, whose channel is still open
SendOwn(c, f) == send' = [send EXCEPT ![c] = Enqueue(@, f)]

\* ------------------------------------------------------------- PresenceManager

\* SetOnline: rdb.Set(key, {status, activity, now}, presenceTTL)
SetOnline(u, st, act) ==
    presence' = [presence EXCEPT ![u] =
                    [status |-> st, activity |-> act, ttl |-> TTLTicks, wttl |-> TTLTicks]]

\* a SetOffline that leaves the key in the store
SetOfflineKeeps(u) == presence' = presence

\* SetOffline: rdb.Del(key)
SetOffline(u) ==
    presence' = [presence EXCEPT ![u] = [NoPresence EXCEPT !.wttl = presence[u].wttl]]

\* a refresh that writes the key when it is missing
RefreshCreates(u) == SetOnline(u, "online", Nil)

\* RefreshPresence: rdb.Expire(key, presenceTTL), which sets nothing for a key
\* that does not exist
RefreshPresence(u) ==
    presence' = [presence EXCEPT ![u].ttl = IF @ > 0 THEN TTLTicks ELSE @]

\* a store whose keys count down but are never removed
ExpireLingers(p) ==
    [p EXCEPT !.ttl = IF @ > 1 THEN @ - 1 ELSE @, !.wttl = IF @ > 0 THEN @ - 1 ELSE 0]

\* the keys of the store after one tick of the clock: a key whose time is up is gone
Expire(p) ==
    IF p.ttl > 1 THEN [p EXCEPT !.ttl = @ - 1, !.wttl = IF @ > 0 THEN @ - 1 ELSE 0]
    ELSE [NoPresence EXCEPT !.wttl = IF p.wttl > 0 THEN p.wttl - 1 ELSE 0]

\* time passes while some key is counting
Tick ==
    /\ \E u \in Users : presence[u].ttl > 0 \/ presence[u].wttl > 0
    /\ presence' = [u \in Users |-> Expire(presence[u])]
    /\ UNCHANGED <<hubVars, cliVars, focusVars, presVars, timeVars, lockVars, cacheVars, dbServerMembers, cap, chanVars, conn, hubPc, readVars,
                   writeVars, tasks, fo, dbVars, fatal>>

\* ------------------------------------------------------------- fan-out

IsFocusedOnChannel(c, ch) == focusedChannel[c] # Nil /\ focusedChannel[c] = ch
IsFocusedOnConversation(c, k) == focusedConversation[c] # Nil /\ focusedConversation[c] = k

\* clients := h.xClients[id] under RLock, and the first step of `range clients`
FoBegin(idx, id, ev, mode, arg, d, st) ==
    LET S == IndexOf(idx)[id]
        base == [idx |-> idx, id |-> id, ev |-> ev, mode |-> mode, arg |-> arg, d |-> d,
                 st |-> st,
                 snap |-> S, pend |-> S, vis |-> {}, cur |-> Nil, att |-> S # {},
                 log |-> [c \in Clients |-> <<>>]]
    IN IF S = {} THEN {base}
       ELSE {[base EXCEPT !.cur = x, !.vis = {x}, !.pend = S \ {x}] : x \in S}

\* the next step of the range: an entry of the map not yet produced; entries
\* the map held when the range began and still holds must all be produced,
\* entries added since may or may not be
FoNext(f) ==
    LET live == IF f.att THEN IndexOf(f.idx)[f.id] ELSE {}
        cand == live \ f.vis
    IN {[f EXCEPT !.cur = y, !.vis = @ \cup {y}, !.pend = @ \ {y}] : y \in cand}
       \cup (IF cand \cap f.pend = {} THEN {[f EXCEPT !.cur = Nil]} ELSE {})

\* the frame the loop body sends to client x
FoFrame(f, x) ==
    CASE f.mode = "all" -> <<DispatchFrame(f.ev, f.d, f.st)>>
      [] f.mode = "channel" ->
           IF IsFocusedOnChannel(x, f.arg)
           THEN <<DispatchFrame("CHANNEL_MESSAGE_CREATE", f.d, "")>>
           ELSE <<DispatchFrame("CHANNEL_MESSAGE_NOTIFY", f.d, "")>>
      [] f.mode = "dm" ->
           IF IsFocusedOnConversation(x, f.id)
           THEN <<DispatchFrame("DM_MESSAGE_CREATE", f.d, "")>>
           ELSE <<DispatchFrame("DM_MESSAGE_NOTIFY", f.d, "")>>
      [] f.mode = "typingChannel" ->
           IF IsFocusedOnChannel(x, f.arg) THEN <<DispatchFrame(f.ev, f.d, f.st)>> ELSE <<>>
      [] f.mode = "typingConv" ->
           IF IsFocusedOnConversation(x, f.id) THEN <<DispatchFrame(f.ev, f.d, f.st)>> ELSE <<>>

\* one iteration of `for client := range clients { ... client.Send(msg) }`
FoStep(th) ==
    /\ fo[th].cur # Nil
    /\ LET f == fo[th]
           x == f.cur
           fr == FoFrame(f, x)
       IN IF fr # <<>> /\ closed[x]
          THEN Panic(th)
          ELSE /\ send' = IF fr = <<>> THEN send
                          ELSE [send EXCEPT ![x] = Enqueue(@, fr[1])]
               /\ \E g \in FoNext([f EXCEPT !.log[x] = @ \o fr]) :
                      fo' = [fo EXCEPT ![th] = g]
               /\ UNCHANGED <<hubVars, cliVars, focusVars, presVars, timeVars, lockVars, cacheVars, dbServerMembers, cap, closed, conn, hubPc, readVars,
                              writeVars, tasks, presence, dbVars, fatal>>

FoDone(th) == fo[th].idx # "none" /\ fo[th].cur = Nil
FoIdle(th) == fo[th].idx = "none"


\* ------------------------------------------------------------- connection

MapRace == "concurrent map iteration and map write"

\* handleWebSocket: NewClient, hub.register <- client (received by Run at its
\* select), go WritePump, go ReadPump. Sessions are named in the order of accept.
Accept(c) ==
    /\ conn[c] = "none"
    /\ \A b \in Clients : b < c => conn[b] # "none"
    /\ hubPc = <<"select", Nil>>
    /\ hubPc' = <<"register", c>>
    /\ conn' = [conn EXCEPT ![c] = "open"]
    /\ rpc' = [rpc EXCEPT ![c] = "read"]
    /\ wpc' = [wpc EXCEPT ![c] = "select"]
    /\ deadline' = [deadline EXCEPT ![c] = ReadTicks]
    /\ age' = [age EXCEPT ![c] = 0]
    /\ UNCHANGED <<hubVars, cliVars, focusVars, presVars, chanVars, cap, rtodo, rmsg, wn, wbuf,
                   tasks, fo, presence, dbVars, now, lockVars, cacheVars, dbServerMembers, fatal>>

\* Run, case client := <-h.register
RunRegister ==
    /\ hubPc[1] = "register"
    /\ clients' = clients \cup {hubPc[2]}
    /\ hubPc' = <<"select", Nil>>
    /\ UNCHANGED <<userClients, serverClients, conversationClients, cliVars, focusVars, presVars, timeVars, lockVars, cacheVars, dbServerMembers, cap,
                   chanVars, conn, readVars, writeVars, tasks, fo, presence, dbVars, fatal>>

\* ReadPump: c.conn.ReadMessage() returns an error (close, deadline, closed conn)
ReadFail(c) ==
    /\ rpc[c] = "read"
    /\ rpc' = [rpc EXCEPT ![c] = "unreg"]
    /\ UNCHANGED <<hubVars, cliVars, focusVars, presVars, timeVars, lockVars, cacheVars, dbServerMembers, cap, chanVars, conn, hubPc, rtodo, rmsg, writeVars,
                   tasks, fo, presence, dbVars, fatal>>

\* a deferred function that closes the connection without the unregister
SendUnregisterSkipped(c) ==
    /\ rpc[c] = "unreg"
    /\ rpc' = [rpc EXCEPT ![c] = "close"]
    /\ UNCHANGED <<hubVars, cliVars, focusVars, presVars, timeVars, lockVars, cacheVars, dbServerMembers, cap, chanVars, conn, hubPc,
                   rtodo, rmsg, writeVars, tasks, fo, presence, dbVars, fatal>>

\* ReadPump's deferred c.hub.unregister <- c, received by Run at its select
SendUnregister(c) ==
    /\ rpc[c] = "unreg"
    /\ hubPc = <<"select", Nil>>
    /\ hubPc' = <<"unregister", c>>
    /\ rpc' = [rpc EXCEPT ![c] = "close"]
    /\ UNCHANGED <<hubVars, cliVars, focusVars, presVars, timeVars, lockVars, cacheVars, dbServerMembers, cap, chanVars, conn, rtodo, rmsg, writeVars,
                   tasks, fo, presence, dbVars, fatal>>

\* c.conn.ReadMessage() returns the timeout error: the read deadline is reached
ReadTimeout(c) ==
    /\ conn[c] = "open" /\ deadline[c] = 0
    /\ ReadFail(c)

\* the pong handler set by ReadPump runs inside ReadMessage for a pong of the
\* peer: c.conn.SetReadDeadline(time.Now().Add(pongWait)); no frame is returned
Pong(c) ==
    /\ rpc[c] = "read" /\ conn[c] = "open"
    /\ deadline' = [deadline EXCEPT ![c] = ReadTicks]
    /\ UNCHANGED <<hubVars, cliVars, focusVars, presVars, age, now, lockVars, cacheVars, dbServerMembers, cap, chanVars, conn, hubPc,
                   readVars, writeVars, tasks, fo, presence, dbVars, fatal>>

\* one tick of the clock of the connections. A ReadMessage whose deadline is
\* reached returns before more time passes; the age of a session is counted up
\* to the first tick after pongWait
TickRead ==
    /\ \E c \in Clients : conn[c] # "none" /\ (deadline[c] > 0 \/ age[c] <= ReadTicks)
    /\ \A c \in Clients : ~(rpc[c] = "read" /\ conn[c] = "open" /\ deadline[c] = 0)
    /\ deadline' = [c \in Clients |-> IF deadline[c] > 0 THEN deadline[c] - 1 ELSE 0]
    /\ age' = [c \in Clients |->
                 IF conn[c] # "none" /\ age[c] <= ReadTicks THEN age[c] + 1 ELSE age[c]]
    /\ UNCHANGED <<hubVars, cliVars, focusVars, presVars, now, lockVars, cacheVars, dbServerMembers, cap, chanVars, conn, hubPc,
                   readVars, writeVars, tasks, fo, presence, dbVars, fatal>>

\* the server's clock moves on
ClockAdvance ==
    /\ now < MaxNow
    /\ now' = now + 1
    /\ UNCHANGED <<hubVars, cliVars, focusVars, presVars, deadline, age, lockVars, cacheVars, dbServerMembers, cap, chanVars, conn,
                   hubPc, readVars, writeVars, tasks, fo, presence, dbVars, fatal>>

\* ReadPump's deferred c.conn.Close()
ReaderClose(c) ==
    /\ rpc[c] = "close"
    /\ rpc' = [rpc EXCEPT ![c] = "exit"]
    /\ conn' = [conn EXCEPT ![c] = "closed"]
    /\ UNCHANGED <<hubVars, cliVars, focusVars, presVars, timeVars, lockVars, cacheVars, dbServerMembers, cap, chanVars, hubPc, rtodo, rmsg, writeVars,
                   tasks, fo, presence, dbVars, fatal>>

\* ------------------------------------------------------------- Hub

\* the maps handleUnregister deletes from
UnregServers(c) == IF identified[c] THEN {v \in servers[c] : serverClients[v] # {}} ELSE {}
\* a handleUnregister without its loop over client.conversations
UnregConvsSkipped(c) == {}

UnregConvs(c) ==
    IF identified[c] THEN {k \in conversations[c] : conversationClients[k] # {}} ELSE {}

\* a handleUnregister that takes every identified session for the user's last
LastSessionAlways(c) == identified[c]

\* handleUnregister finds len(clients) == 0 after delete(clients, client)
LastSession(c) == identified[c] /\ userClients[userID[c]] = {c}

\* the index updates of handleUnregister for a client in h.clients
UnregisterIndices(c) ==
    /\ clients' = clients \ {c}
    /\ userClients' = IF identified[c]
                      THEN [userClients EXCEPT ![userID[c]] = @ \ {c}]
                      ELSE userClients
    /\ serverClients' = [v \in Servers |->
            IF v \in UnregServers(c) THEN serverClients[v] \ {c} ELSE serverClients[v]]
    /\ conversationClients' = [k \in Convs |->
            IF k \in UnregConvs(c) THEN conversationClients[k] \ {c}
            ELSE conversationClients[k]]

\* handleUnregister for a client of h.clients: delete from every index, start
\* the offline goroutines after the user's last session, close(client.send)
RemoveClient(c) ==
    LET u == userID[c]
        last == LastSession(c)
        goneU == IF last THEN {u} ELSE {}
        goneS == {v \in UnregServers(c) : serverClients[v] = {c}}
        goneK == {k \in UnregConvs(c) : conversationClients[k] = {c}}
    IN /\ UnregisterIndices(c)
       /\ closed' = [closed EXCEPT ![c] = TRUE]
       /\ tasks' = IF last
                   THEN [tasks EXCEPT
                           ![OfflineSet(c)] = Task("offline", "del", u, Nil, "", {}),
                           ![OfflineBcast(c)] =
                               Task("bcast", "srv", u, Nil, "offline", dbMembers(u))]
                   ELSE tasks
       /\ fo' = [th \in Threads |->
                   Detach(Detach(Detach(fo[th], "user", goneU),
                                 "server", goneS), "conv", goneK)]
       /\ hubPc' = <<"select", Nil>>
       /\ UNCHANGED <<cliVars, focusVars, presVars, timeVars, lockVars, cacheVars, dbServerMembers, cap, send, conn, readVars,
                      writeVars, presence, dbVars, fatal>>

\* a handleUnregister without its look at h.clients: close of a closed channel panics
HandleUnregisterUnchecked ==
    /\ hubPc[1] = "unregister"
    /\ IF closed[hubPc[2]] THEN Crash("close of closed channel")
       ELSE RemoveClient(hubPc[2])

\* Run, case client := <-h.unregister: handleUnregister under h.mu
HandleUnregister ==
    /\ hubPc[1] = "unregister"
    /\ IF hubPc[2] \notin clients
       THEN /\ hubPc' = <<"select", Nil>>
            /\ UNCHANGED <<hubVars, cliVars, focusVars, presVars, timeVars, lockVars, cacheVars, dbServerMembers, cap, chanVars, conn,
                           readVars, writeVars, tasks, fo, presence, dbVars, fatal>>
       ELSE RemoveClient(hubPc[2])

\* c.hub.unregister <- c for a client the hub does not hold: one that was
\* unregistered before. No code path of the repository sends it
UnregisterAgain(c) ==
    /\ c \notin clients /\ closed[c]
    /\ hubPc = <<"select", Nil>>
    /\ hubPc' = <<"unregister", c>>
    /\ UNCHANGED <<hubVars, cliVars, focusVars, presVars, timeVars, lockVars, cacheVars, dbServerMembers, cap, chanVars, conn,
                   readVars, writeVars, tasks, fo, presence, dbVars, fatal>>

\* a RegisterIdentifiedClient that indexes the client without marking it identified
RegisterUnmarked(c, u) ==
    /\ userID' = [userID EXCEPT ![c] = u]
    /\ identified' = identified
    /\ userClients' = [userClients EXCEPT ![u] = @ \cup {c}]

\* RegisterIdentifiedClient under h.mu
\* a registration that enters the session in userClients and leaves its
\* identified flag as it is
RegisterUnflagged(c, u) ==
    /\ userID' = [userID EXCEPT ![c] = u]
    /\ identified' = identified
    /\ userClients' = [userClients EXCEPT ![u] = @ \cup {c}]

RegisterIdentifiedClient(c, u) ==
    /\ userID' = [userID EXCEPT ![c] = u]
    /\ identified' = [identified EXCEPT ![c] = TRUE]
    /\ userClients' = [userClients EXCEPT ![u] = @ \cup {c}]

\* a SubscribeToServer that calls Client.SubscribeServer and leaves the index alone
SubscribeClientOnly(c, v) ==
    /\ servers' = [servers EXCEPT ![c] = @ \cup {v}]
    /\ serverClients' = serverClients

\* SubscribeToServer under h.mu (with Client.SubscribeServer)
SubscribeToServer(c, v) ==
    /\ servers' = [servers EXCEPT ![c] = @ \cup {v}]
    /\ serverClients' = [serverClients EXCEPT ![v] = @ \cup {c}]

\* SubscribeToConversation under h.mu (with Client.SubscribeConversation)
SubscribeToConversation(c, k) ==
    /\ conversations' = [conversations EXCEPT ![c] = @ \cup {k}]
    /\ conversationClients' = [conversationClients EXCEPT ![k] = @ \cup {c}]


\* ------------------------------------------------------------- handlers

\* a handler's reply to its own client and return to ReadMessage
Reply(c, f) ==
    /\ SendOwn(c, f)
    /\ UNCHANGED <<hubVars, cliVars, focusVars, presVars, timeVars, lockVars, cacheVars, dbServerMembers, cap, closed, conn, hubPc, readVars, writeVars,
                   tasks, fo, presence, dbVars, fatal>>

\* a handler that returns without a reply
Drop(c) == UNCHANGED vars

\* a reader that leaves its loop on a frame that is not JSON
BadJSONBreaks(c) ==
    /\ rpc[c] = "read"
    /\ rpc' = [rpc EXCEPT ![c] = "unreg"]
    /\ UNCHANGED <<hubVars, cliVars, focusVars, presVars, timeVars, lockVars, cacheVars, dbServerMembers, cap, chanVars, conn, hubPc, rtodo, rmsg,
                   writeVars, tasks, fo, presence, dbVars, fatal>>

\* ReadPump: json.Unmarshal of the frame fails
BadJSON(c) ==
    /\ rpc[c] = "read"
    /\ Reply(c, ErrorFrame(4000))

NextMessageID == Cardinality(channelMessages) + Cardinality(directMessages) + 1

\* a handleIdentify without its IsIdentified check
handleIdentifyAgain(c, msg, dbok) ==
    /\ msg.token \in Users
    /\ RegisterIdentifiedClient(c, msg.token)
    /\ rtodo' = [rtodo EXCEPT ![c] = dbMembers(msg.token)]
    /\ rpc' = [rpc EXCEPT ![c] = "idSubS"]
    /\ UNCHANGED <<clients, serverClients, conversationClients, servers,
                   conversations, focusVars, presVars, timeVars, lockVars, cacheVars, dbServerMembers, cap, chanVars, conn, hubPc, rmsg, writeVars,
                   tasks, fo, presence, dbVars, fatal>>

\* a handleIdentify that gives up when the membership query fails
handleIdentifyStrict(c, msg, dbok) ==
    LET u == GetUserIDFromToken(msg.token)
    IN IF identified[c] THEN Reply(c, ErrorFrame(4003))
       ELSE IF msg.token = Nil \/ u = Nil \/ ~UserExists(u) \/ ~dbok
       THEN Reply(c, OpFrame("InvalidSession"))
       ELSE
         /\ RegisterIdentifiedClient(c, u)
         /\ rtodo' = [rtodo EXCEPT ![c] = dbMembers(u)]
         /\ rpc' = [rpc EXCEPT ![c] = IF dbMembers(u) = {} THEN "idPart" ELSE "idSubS"]
         /\ UNCHANGED <<clients, serverClients, conversationClients, servers,
                        conversations, focusVars, presVars, timeVars, lockVars, cacheVars, dbServerMembers, cap, chanVars, conn,
                        hubPc, rmsg, writeVars, tasks, fo, presence, dbVars, fatal>>

\* handleIdentify up to RegisterIdentifiedClient and the membership query of
\* LoadUserSubscriptions, which fails when dbok is false
handleIdentify(c, msg, dbok) ==
    LET u == GetUserIDFromToken(msg.token)
    IN IF identified[c] THEN Reply(c, ErrorFrame(4003))
       ELSE IF msg.token = Nil \/ u = Nil \/ ~UserExists(u)
       THEN Reply(c, OpFrame("InvalidSession"))
       ELSE
         /\ RegisterIdentifiedClient(c, u)
         /\ rtodo' = [rtodo EXCEPT ![c] = IF dbok THEN dbMembers(u) ELSE {}]
         /\ rpc' = [rpc EXCEPT ![c] =
                       IF ~dbok THEN "idOnline"
                       ELSE IF dbMembers(u) = {} THEN "idPart" ELSE "idSubS"]
         /\ UNCHANGED <<clients, serverClients, conversationClients, servers,
                        conversations, focusVars, presVars, timeVars, lockVars, cacheVars, dbServerMembers, cap, chanVars, conn, hubPc, rmsg, writeVars,
                        tasks, fo, presence, dbVars, fatal>>

\* handleFocusChange
handleFocusChange(c, msg) ==
    IF msg.srv # Nil /\ msg.srv \notin servers[c] THEN Drop(c)
    ELSE IF msg.conv # Nil /\ msg.conv \notin conversations[c] THEN Drop(c)
    ELSE /\ focusedChannel' = [focusedChannel EXCEPT ![c] = msg.ch]
         /\ focusedServer' = [focusedServer EXCEPT ![c] = msg.srv]
         /\ focusedConversation' = [focusedConversation EXCEPT ![c] = msg.conv]
         /\ SendOwn(c, AckFrame)
         /\ UNCHANGED <<hubVars, cliVars, presVars, timeVars, lockVars, cacheVars, dbServerMembers, cap, closed, conn, hubPc, readVars,
                        writeVars, tasks, fo, presence, dbVars, fatal>>

\* the reader of c enters a fan-out loop
EnterFanout(c, pc, begin) ==
    /\ \E f \in begin : fo' = [fo EXCEPT ![c] = f]
    /\ rpc' = [rpc EXCEPT ![c] = pc]
    /\ UNCHANGED <<hubVars, cliVars, focusVars, presVars, timeVars, lockVars, cacheVars, dbServerMembers, cap, chanVars, conn, hubPc, rtodo, rmsg,
                   writeVars, tasks, presence, dbVars, fatal>>

\* handleTypingStart and handleTypingStop: DispatchToServer / DispatchToConversation
handleTyping(c, msg, event) ==
    IF msg.ch # Nil /\ msg.srv # Nil
    THEN IF msg.srv \notin servers[c] THEN Drop(c)
         ELSE EnterFanout(c, "typing",
                          FoBegin("server", msg.srv, event, "all", msg.ch, userID[c], ""))
    ELSE IF msg.conv # Nil
    THEN IF msg.conv \notin conversations[c] THEN Drop(c)
         ELSE EnterFanout(c, "typing",
                          FoBegin("conv", msg.conv, event, "all", Nil, userID[c], ""))
    ELSE Drop(c)

\* a handler that has persisted a row and goes on to dispatch it
Persisted(c, pc, msg) ==
    /\ rpc' = [rpc EXCEPT ![c] = pc]
    /\ rmsg' = [rmsg EXCEPT ![c] = [msg EXCEPT !.id = NextMessageID]]
    /\ UNCHANGED <<hubVars, cliVars, focusVars, presVars, timeVars, lockVars, cacheVars, dbServerMembers, cap, chanVars, conn, hubPc, rtodo, writeVars,
                   tasks, fo, presence, dbParticipants, dbLastRead, fatal>>

\* handleChannelMessageCreate up to database.DB.Create
handleChannelMessageCreate(c, msg, dbok) ==
    IF msg.srv \notin servers[c] THEN Reply(c, ErrorFrame(4003))
    ELSE IF msg.ch \notin Channels \/ ChannelServer(msg.ch) # msg.srv
    THEN Reply(c, ErrorFrame(4004))
    ELSE IF ~dbok THEN Reply(c, ErrorFrame(5000))
    ELSE /\ NextMessageID <= MaxMsgs
         /\ channelMessages' = channelMessages \cup
                {[id |-> NextMessageID, ch |-> msg.ch, author |-> userID[c],
                  edited |-> FALSE, deleted |-> FALSE]}
         /\ UNCHANGED directMessages
         /\ Persisted(c, "chanDisp", msg)

\* a create that dispatches whether or not the row was written
handleDMMessageCreateOptimistic(c, msg, dbok) ==
    IF msg.conv \notin conversations[c] THEN Reply(c, ErrorFrame(4003))
    ELSE /\ NextMessageID <= MaxMsgs
         /\ directMessages' = IF dbok
                               THEN directMessages \cup
                                       {[id |-> NextMessageID, conv |-> msg.conv,
                                         author |-> userID[c],
                                         edited |-> FALSE, deleted |-> FALSE]}
                               ELSE directMessages
         /\ UNCHANGED channelMessages
         /\ Persisted(c, "dmDisp", msg)

\* handleDMMessageCreate up to database.DB.Create
handleDMMessageCreate(c, msg, dbok) ==
    IF msg.conv \notin conversations[c] THEN Reply(c, ErrorFrame(4003))
    ELSE IF ~dbok THEN Reply(c, ErrorFrame(5000))
    ELSE /\ NextMessageID <= MaxMsgs
         /\ directMessages' = directMessages \cup
                {[id |-> NextMessageID, conv |-> msg.conv, author |-> userID[c],
                  edited |-> FALSE, deleted |-> FALSE]}
         /\ UNCHANGED channelMessages
         /\ Persisted(c, "dmDisp", msg)

\* handleMessageCreate: the payload has a channel_id, else a conversation_id
handleMessageCreate(c, msg, dbok) ==
    IF msg.ch # Nil THEN handleChannelMessageCreate(c, msg, dbok)
    ELSE IF msg.conv # Nil THEN handleDMMessageCreate(c, msg, dbok)
    ELSE Reply(c, ErrorFrame(4000))

\* Message{Op: OpHeartbeatAck, Data: HeartbeatPayload{Timestamp: t}}
HeartbeatAck(t) == [OpFrame("HeartbeatAck") EXCEPT !.d = t]

\* handleHeartbeat: the refresh, and the HeartbeatAck with the server's time
\* to the sender
handleHeartbeat(c) ==
    /\ IF identified[c] THEN RefreshPresence(userID[c]) ELSE UNCHANGED presence
    /\ SendOwn(c, HeartbeatAck(now))
    /\ UNCHANGED <<hubVars, cliVars, focusVars, presVars, timeVars, lockVars, cacheVars, dbServerMembers, cap, closed, conn, hubPc, readVars,
                   writeVars, tasks, fo, dbVars, fatal>>

\* handlePresenceUpdate; a payload that does not decode has the status "?"
handlePresenceUpdate(c, msg) ==
    IF msg.st = "?" THEN Drop(c)
    ELSE IF msg.st \notin validStatuses THEN Reply(c, ErrorFrame(4000))
    ELSE /\ tasks[UpdateTask(c)].type = "free"
         /\ status' = [status EXCEPT ![c] = msg.st]
         /\ activity' = [activity EXCEPT ![c] = msg.act]
         /\ SetOnline(userID[c], msg.st, msg.act)
         /\ tasks' = [tasks EXCEPT ![UpdateTask(c)] =
                         Task("bcast", "srv", userID[c], Nil, msg.st, dbMembers(userID[c]))]
         /\ UNCHANGED <<hubVars, cliVars, focusVars, timeVars, lockVars, cacheVars, dbServerMembers, cap, chanVars, conn, hubPc, readVars,
                        writeVars, fo, dbVars, fatal>>

\* a query without its author_id condition
MatchingAnyAuthor(rows, place, id, where, author) ==
    {r \in rows : r.id = id /\ r[place] = where /\ ~r.deleted}

\* the rows an UPDATE or DELETE of a message table matches: id, place and author
\* (a soft-deleted row matches no query)
Matching(rows, place, id, where, author) ==
    {r \in rows : r.id = id /\ r[place] = where /\ r.author = author /\ ~r.deleted}

\* Updates(content, edited_at) and Delete on the rows matched
Edited(rows, hit) == (rows \ hit) \cup {[r EXCEPT !.edited = TRUE] : r \in hit}
Deleted(rows, hit) == (rows \ hit) \cup {[r EXCEPT !.deleted = TRUE] : r \in hit}

\* a handler has changed rows of a message table and makes its dispatch
Changed(c, idx, id, event, msg) ==
    /\ \E f \in FoBegin(idx, id, event, "all", msg.ch, msg.id, "") :
           fo' = [fo EXCEPT ![c] = f]
    /\ rpc' = [rpc EXCEPT ![c] = "typing"]
    /\ UNCHANGED <<hubVars, cliVars, focusVars, presVars, timeVars, lockVars, cacheVars, dbServerMembers, cap, chanVars, conn, hubPc, rtodo, rmsg,
                   writeVars, tasks, presence, dbParticipants, fatal>>

\* handleMessageEdit: the payload has no usable id or content (id 0), a
\* channel_id, else a conversation_id; a failed UPDATE affects no row
handleMessageEdit(c, msg, dbok) ==
    IF msg.id = Nil THEN Reply(c, ErrorFrame(4000))
    ELSE IF msg.ch # Nil
    THEN LET hit == IF dbok THEN Matching(channelMessages, "ch", msg.id, msg.ch, userID[c])
                    ELSE {}
         IN IF msg.srv \notin servers[c] THEN Reply(c, ErrorFrame(4003))
            ELSE IF hit = {} THEN Reply(c, ErrorFrame(4004))
            ELSE /\ channelMessages' = Edited(channelMessages, hit)
                 /\ UNCHANGED <<directMessages, dbLastRead>>
                 /\ Changed(c, "server", msg.srv, "CHANNEL_MESSAGE_UPDATE", msg)
    ELSE IF msg.conv # Nil
    THEN LET hit == IF dbok THEN Matching(directMessages, "conv", msg.id, msg.conv, userID[c])
                    ELSE {}
         IN IF msg.conv \notin conversations[c] THEN Reply(c, ErrorFrame(4003))
            ELSE IF hit = {} THEN Reply(c, ErrorFrame(4004))
            ELSE /\ directMessages' = Edited(directMessages, hit)
                 /\ UNCHANGED <<channelMessages, dbLastRead>>
                 /\ Changed(c, "conv", msg.conv, "DM_MESSAGE_UPDATE", msg)
    ELSE Drop(c)

\* handleMessageDelete: the payload has a channel_id and a server_id, else a
\* conversation_id
handleMessageDelete(c, msg, dbok) ==
    IF msg.ch # Nil /\ msg.srv # Nil
    THEN LET hit == IF dbok THEN Matching(channelMessages, "ch", msg.id, msg.ch, userID[c])
                    ELSE {}
         IN IF msg.srv \notin servers[c] THEN Reply(c, ErrorFrame(4003))
            ELSE IF hit = {} THEN Reply(c, ErrorFrame(4004))
            ELSE /\ channelMessages' = Deleted(channelMessages, hit)
                 /\ UNCHANGED <<directMessages, dbLastRead>>
                 /\ Changed(c, "server", msg.srv, "CHANNEL_MESSAGE_DELETE", msg)
    ELSE IF msg.conv # Nil
    THEN LET hit == IF dbok THEN Matching(directMessages, "conv", msg.id, msg.conv, userID[c])
                    ELSE {}
         IN IF msg.conv \notin conversations[c] THEN Reply(c, ErrorFrame(4003))
            ELSE IF hit = {} THEN Reply(c, ErrorFrame(4004))
            ELSE /\ directMessages' = Deleted(directMessages, hit)
                 /\ UNCHANGED <<channelMessages, dbLastRead>>
                 /\ Changed(c, "conv", msg.conv, "DM_MESSAGE_DELETE", msg)
    ELSE Drop(c)

\* handleMessageAck: last_read_at of the sender's participant row, and MESSAGE_ACK
handleMessageAck(c, msg, dbok) ==
    IF msg.conv = Nil THEN Drop(c)
    ELSE IF msg.conv \notin conversations[c] THEN Drop(c)
    ELSE /\ dbLastRead' = IF dbok /\ userID[c] \in dbParticipants[msg.conv]
                          THEN dbLastRead \cup {<<msg.conv, userID[c]>>}
                          ELSE dbLastRead
         /\ UNCHANGED <<channelMessages, directMessages>>
         /\ Changed(c, "conv", msg.conv, "MESSAGE_ACK", msg)

\* the opcodes of the switch in HandleMessage
KnownOps == {"Identify", "Heartbeat", "PresenceUpdate", "FocusChange", "TypingStart",
             "TypingStop", "MessageCreate", "MessageEdit", "MessageDelete", "MessageAck"}
\* the opcodes of focus, typing and message creation
ChatOps == {"FocusChange", "TypingStart", "TypingStop", "MessageCreate"}

\* an opcode switch without the authentication gate
HandleUngated(c, msg, dbok) ==
    CASE msg.op = "Identify" -> handleIdentify(c, msg, dbok)
      [] msg.op = "FocusChange" -> handleFocusChange(c, msg)
      [] msg.op = "TypingStart" -> handleTyping(c, msg, "TYPING_START")
      [] msg.op = "TypingStop" -> handleTyping(c, msg, "TYPING_STOP")
      [] msg.op = "MessageCreate" -> handleMessageCreate(c, msg, dbok)
      [] msg.op = "Heartbeat" -> handleHeartbeat(c)
      [] msg.op = "PresenceUpdate" -> handlePresenceUpdate(c, msg)
      [] msg.op = "MessageEdit" -> handleMessageEdit(c, msg, dbok)
      [] msg.op = "MessageDelete" -> handleMessageDelete(c, msg, dbok)
      [] msg.op = "MessageAck" -> handleMessageAck(c, msg, dbok)
      [] OTHER -> Reply(c, ErrorFrame(4002))

\* HandleMessage: the opcode switch
HandleMessage(c, msg, dbok) ==
    IF ~identified[c] /\ msg.op # "Identify" THEN Reply(c, ErrorFrame(4001))
    ELSE CASE msg.op = "Identify" -> handleIdentify(c, msg, dbok)
           [] msg.op = "FocusChange" -> handleFocusChange(c, msg)
           [] msg.op = "TypingStart" -> handleTyping(c, msg, "TYPING_START")
           [] msg.op = "TypingStop" -> handleTyping(c, msg, "TYPING_STOP")
           [] msg.op = "MessageCreate" -> handleMessageCreate(c, msg, dbok)
           [] msg.op = "Heartbeat" -> handleHeartbeat(c)
           [] msg.op = "PresenceUpdate" -> handlePresenceUpdate(c, msg)
           [] msg.op = "MessageEdit" -> handleMessageEdit(c, msg, dbok)
           [] msg.op = "MessageDelete" -> handleMessageDelete(c, msg, dbok)
           [] msg.op = "MessageAck" -> handleMessageAck(c, msg, dbok)
           [] msg.op \notin KnownOps -> Reply(c, ErrorFrame(4002))

\* ReadPump: a frame is read, decoded and handled
ReadFrame(c, msg, dbok) ==
    /\ rpc[c] = "read"
    /\ HandleMessage(c, msg, dbok)


\* ------------------------------------------------------------- Identify, continued

\* LoadUserSubscriptions: h.SubscribeToServer(client, m.ServerID) for the next membership
IdSubscribeServer(c) ==
    /\ rpc[c] = "idSubS"
    /\ LET v == Min(rtodo[c])
       IN /\ SubscribeToServer(c, v)
          /\ rtodo' = [rtodo EXCEPT ![c] = @ \ {v}]
          /\ rpc' = [rpc EXCEPT ![c] = IF rtodo[c] = {v} THEN "idPart" ELSE "idSubS"]
          /\ UNCHANGED <<clients, userClients, conversationClients, identified, userID,
                         conversations, focusVars, presVars, timeVars, lockVars, cacheVars, dbServerMembers, cap, chanVars, conn, hubPc, rmsg,
                         writeVars, tasks, fo, presence, dbVars, fatal>>

\* LoadUserSubscriptions: the dm_participants query, which may fail
IdParticipants(c, dbok) ==
    /\ rpc[c] = "idPart"
    /\ LET ks == IF dbok THEN {k \in Convs : userID[c] \in dbParticipants[k]} ELSE {}
       IN /\ rtodo' = [rtodo EXCEPT ![c] = ks]
          /\ rpc' = [rpc EXCEPT ![c] = IF ks = {} THEN "idOnline" ELSE "idSubC"]
    /\ UNCHANGED <<hubVars, cliVars, focusVars, presVars, timeVars, lockVars, cacheVars, dbServerMembers, cap, chanVars, conn, hubPc, rmsg, writeVars,
                   tasks, fo, presence, dbVars, fatal>>

\* LoadUserSubscriptions: h.SubscribeToConversation(client, p.ConversationID)
IdSubscribeConversation(c) ==
    /\ rpc[c] = "idSubC"
    /\ LET k == Min(rtodo[c])
       IN /\ SubscribeToConversation(c, k)
          /\ rtodo' = [rtodo EXCEPT ![c] = @ \ {k}]
          /\ rpc' = [rpc EXCEPT ![c] = IF rtodo[c] = {k} THEN "idOnline" ELSE "idSubC"]
          /\ UNCHANGED <<clients, userClients, serverClients, identified, userID,
                         servers, focusVars, presVars, timeVars, lockVars, cacheVars, dbServerMembers, cap, chanVars, conn, hubPc, rmsg,
                         writeVars, tasks, fo, presence, dbVars, fatal>>

\* h.presence.SetOnline(userID, "online", nil)
IdSetOnline(c) ==
    /\ rpc[c] = "idOnline"
    /\ SetOnline(userID[c], "online", Nil)
    /\ rpc' = [rpc EXCEPT ![c] = "idReady"]
    /\ UNCHANGED <<hubVars, cliVars, focusVars, presVars, timeVars, lockVars, cacheVars, dbServerMembers, cap, chanVars, conn, hubPc, rtodo, rmsg,
                   writeVars, tasks, fo, dbVars, fatal>>

\* client.Send(Ready) and go h.broadcastPresenceChange(userID, "online", ...)
IdReady(c) ==
    /\ rpc[c] = "idReady"
    /\ SendOwn(c, OpFrame("Ready"))
    /\ tasks' = [tasks EXCEPT ![OnlineTask(c)] =
                    Task("bcast", "srv", userID[c], Nil, "online", dbMembers(userID[c]))]
    /\ rpc' = [rpc EXCEPT ![c] = "read"]
    /\ UNCHANGED <<hubVars, cliVars, focusVars, presVars, timeVars, lockVars, cacheVars, dbServerMembers, cap, closed, conn, hubPc, rtodo, rmsg,
                   writeVars, fo, presence, dbVars, fatal>>

\* ------------------------------------------------------------- dispatch by a reader

\* handleTypingStart / handleTypingStop, and the handlers of MessageEdit,
\* MessageDelete and MessageAck, return after the dispatch
TypingDone(c) ==
    /\ rpc[c] = "typing"
    /\ FoDone(c)
    /\ fo' = [fo EXCEPT ![c] = NoFo]
    /\ rpc' = [rpc EXCEPT ![c] = "read"]
    /\ UNCHANGED <<hubVars, cliVars, focusVars, presVars, timeVars, lockVars, cacheVars, dbServerMembers, cap, chanVars, conn, hubPc, rtodo, rmsg,
                   writeVars, tasks, presence, dbVars, fatal>>

\* h.DispatchChannelMessage(payload.ServerID, payload.ChannelID, responsePayload)
ChanDispatch(c) ==
    /\ rpc[c] = "chanDisp"
    /\ EnterFanout(c, "chanFan",
                   FoBegin("server", rmsg[c].srv, "", "channel", rmsg[c].ch, rmsg[c].id, ""))

\* h.DispatchDMMessage(payload.ConversationID, responsePayload)
DMDispatch(c) ==
    /\ rpc[c] = "dmDisp"
    /\ EnterFanout(c, "dmFan",
                   FoBegin("conv", rmsg[c].conv, "", "dm", Nil, rmsg[c].id, ""))

\* the end of handleChannelMessageCreate: the ack, if the frame had a nonce
ChanDone(c) ==
    /\ rpc[c] = "chanFan"
    /\ FoDone(c)
    /\ send' = IF rmsg[c].nonce THEN [send EXCEPT ![c] = Enqueue(@, AckFrame)] ELSE send
    /\ fo' = [fo EXCEPT ![c] = NoFo]
    /\ rmsg' = [rmsg EXCEPT ![c] = NoMsg]
    /\ rpc' = [rpc EXCEPT ![c] = "read"]
    /\ UNCHANGED <<hubVars, cliVars, focusVars, presVars, timeVars, lockVars, cacheVars, dbServerMembers, cap, closed, conn, hubPc, rtodo,
                   writeVars, tasks, presence, dbVars, fatal>>

\* the end of handleDMMessageCreate: last_read_at of the sender, and the ack
DMDone(c) ==
    /\ rpc[c] = "dmFan"
    /\ FoDone(c)
    /\ dbLastRead' = IF userID[c] \in dbParticipants[rmsg[c].conv]
                     THEN dbLastRead \cup {<<rmsg[c].conv, userID[c]>>}
                     ELSE dbLastRead
    /\ send' = IF rmsg[c].nonce THEN [send EXCEPT ![c] = Enqueue(@, AckFrame)] ELSE send
    /\ fo' = [fo EXCEPT ![c] = NoFo]
    /\ rmsg' = [rmsg EXCEPT ![c] = NoMsg]
    /\ rpc' = [rpc EXCEPT ![c] = "read"]
    /\ UNCHANGED <<hubVars, cliVars, focusVars, presVars, timeVars, lockVars, cacheVars, dbServerMembers, cap, closed, conn, hubPc, rtodo,
                   writeVars, tasks, presence, dbParticipants, channelMessages,
                   directMessages, fatal>>

\* ------------------------------------------------------------- goroutines

TaskVarsOnly == <<hubVars, cliVars, focusVars, presVars, timeVars, lockVars, cacheVars, dbServerMembers, cap, chanVars, conn, hubPc, readVars, writeVars,
                  presence, dbVars, fatal>>

\* go h.presence.SetOffline(client.userID)
OfflineTask(t) ==
    /\ tasks[t].type = "offline"
    /\ SetOffline(tasks[t].u)
    /\ tasks' = [tasks EXCEPT ![t] = NoTask]
    /\ UNCHANGED <<hubVars, cliVars, focusVars, presVars, timeVars, lockVars, cacheVars, dbServerMembers, cap, chanVars, conn, hubPc, readVars, writeVars,
                   fo, dbVars, fatal>>

\* broadcastPresenceChange: h.DispatchToServer for the next membership
BcastServer(t) ==
    /\ tasks[t].type = "bcast" /\ tasks[t].pc = "srv"
    /\ FoIdle(t) \/ FoDone(t)
    /\ tasks[t].todo # {}
    /\ LET v == Min(tasks[t].todo)
       IN /\ \E f \in FoBegin("server", v, "PRESENCE_UPDATE", "all", Nil,
                              tasks[t].u, tasks[t].st) :
                 fo' = [fo EXCEPT ![t] = f]
          /\ tasks' = [tasks EXCEPT ![t].todo = @ \ {v}]
    /\ UNCHANGED TaskVarsOnly

\* broadcastPresenceChange: the dm_participants query
BcastParticipants(t) ==
    /\ tasks[t].type = "bcast" /\ tasks[t].pc = "srv"
    /\ FoIdle(t) \/ FoDone(t)
    /\ tasks[t].todo = {}
    /\ tasks' = [tasks EXCEPT ![t].pc = "conv",
                              ![t].todo = {k \in Convs : tasks[t].u \in dbParticipants[k]}]
    /\ fo' = [fo EXCEPT ![t] = NoFo]
    /\ UNCHANGED TaskVarsOnly

\* broadcastPresenceChange: h.DispatchToConversation for the next participation
BcastConversation(t) ==
    /\ tasks[t].type = "bcast" /\ tasks[t].pc = "conv"
    /\ FoIdle(t) \/ FoDone(t)
    /\ tasks[t].todo # {}
    /\ LET k == Min(tasks[t].todo)
       IN /\ \E f \in FoBegin("conv", k, "PRESENCE_UPDATE", "all", Nil,
                              tasks[t].u, tasks[t].st) :
                 fo' = [fo EXCEPT ![t] = f]
          /\ tasks' = [tasks EXCEPT ![t].todo = @ \ {k}]
    /\ UNCHANGED TaskVarsOnly

\* broadcastPresenceChange returns
BcastDone(t) ==
    /\ tasks[t].type = "bcast" /\ tasks[t].pc = "conv"
    /\ FoIdle(t) \/ FoDone(t)
    /\ tasks[t].todo = {}
    /\ tasks' = [tasks EXCEPT ![t] = NoTask]
    /\ fo' = [fo EXCEPT ![t] = NoFo]
    /\ UNCHANGED TaskVarsOnly


\* ------------------------------------------------------------- REST: a new group DM

\* the set S as the list of its elements in ascending order
RECURSIVE Ascending(_)
Ascending(S) == IF S = {} THEN <<>> ELSE <<Min(S)>> \o Ascending(S \ {Min(S)})

\* POST /conversation: the conversation and its participants (the creator
\* first) are persisted, then notifyNewGroupDM runs in the handler
CreateGroupDM(k, creator, friends) ==
    /\ dbParticipants[k] = {}
    /\ friends # {} /\ creator \notin friends
    /\ dbParticipants' = [dbParticipants EXCEPT ![k] = {creator} \cup friends]
    /\ tasks' = [tasks EXCEPT ![GdmTask(k)] =
                    [Task("groupdm", "disp", creator, k, "", {})
                        EXCEPT !.parts = <<creator>> \o Ascending(friends)]]
    /\ UNCHANGED <<hubVars, cliVars, focusVars, presVars, timeVars, lockVars, cacheVars, dbServerMembers, cap, chanVars, conn, hubPc, readVars, writeVars,
                   fo, presence, dbLastRead, channelMessages, directMessages, fatal>>

\* notifyNewGroupDM: hub.DispatchToUser(participant.UserID, EventDMCreate, payload)
GdmDispatch(t) ==
    /\ tasks[t].type = "groupdm" /\ tasks[t].pc = "disp"
    /\ \E f \in FoBegin("user", Head(tasks[t].parts), "DM_CREATE", "all", Nil,
                          tasks[t].id, "") :
           fo' = [fo EXCEPT ![t] = f]
    /\ tasks' = [tasks EXCEPT ![t].pc = "fan"]
    /\ UNCHANGED TaskVarsOnly

\* the notifier moves on: the clients left to subscribe, else the next
\* participant, else it returns
GdmAdvance(tk, list) ==
    IF list # {} THEN [tk EXCEPT !.pc = "sub", !.list = list]
    ELSE IF Len(tk.parts) > 1 THEN [tk EXCEPT !.pc = "disp", !.list = {}, !.parts = Tail(@)]
    ELSE NoTask

\* notifyNewGroupDM: hub.GetUserClients(participant.UserID), a copy made under RLock
GdmGetClients(t) ==
    /\ tasks[t].type = "groupdm" /\ tasks[t].pc = "fan"
    /\ FoDone(t)
    /\ tasks' = [tasks EXCEPT ![t] = GdmAdvance(@, userClients[Head(tasks[t].parts)])]
    /\ fo' = [fo EXCEPT ![t] = NoFo]
    /\ UNCHANGED TaskVarsOnly

\* notifyNewGroupDM: hub.SubscribeToConversation(client, conv.ID)
GdmSubscribe(t) ==
    /\ tasks[t].type = "groupdm" /\ tasks[t].pc = "sub"
    /\ \E x \in tasks[t].list :
          /\ SubscribeToConversation(x, tasks[t].id)
          /\ tasks' = [tasks EXCEPT ![t] = GdmAdvance(@, tasks[t].list \ {x})]
          /\ UNCHANGED <<clients, userClients, serverClients, identified, userID,
                         servers, focusVars, presVars, timeVars, lockVars, cacheVars, dbServerMembers, cap, chanVars, conn, hubPc, readVars,
                         writeVars, fo, presence, dbVars, fatal>>

\* ------------------------------------------------------------- REST: a friend request accepted

\* POST accept: the request, the conversation with its two participants and
\* the friendship are committed (userroutes.go:577-626), then
\* notifyFriendAccepted(user, friend, ...) runs in the handler. The request
\* has the task name of the conversation it creates
AcceptFriend(k, user, friend) ==
    /\ dbParticipants[k] = {}
    /\ user # friend
    /\ dbParticipants' = [dbParticipants EXCEPT ![k] = {user, friend}]
    /\ tasks' = [tasks EXCEPT ![GdmTask(k)] =
                    [Task("friend", "acc", user, k, "", {})
                        EXCEPT !.parts = <<user, friend>>]]
    /\ UNCHANGED <<hubVars, cliVars, focusVars, presVars, timeVars, lockVars, cacheVars, dbServerMembers, cap, chanVars, conn, hubPc,
                   readVars, writeVars, fo, presence, dbLastRead, channelMessages,
                   directMessages, fatal>>

\* the three calls of hub.DispatchToUser in their order: the user dispatched
\* to, the event, and the position after the call
FrCall(tk) ==
    CASE tk.pc = "acc" -> <<tk.parts[2], "FRIEND_REQUEST_ACCEPTED", "dmA">>
      [] tk.pc = "dmA" -> <<tk.parts[1], "DM_CREATE", "dmB">>
      [] tk.pc = "dmB" -> <<tk.parts[2], "DM_CREATE", "getA">>

\* notifyFriendAccepted: hub.DispatchToUser(...), when the range of the call
\* before it is over. The log of the Send calls of the notifier is kept
FrDispatch(t) ==
    /\ tasks[t].type = "friend" /\ tasks[t].pc \in {"acc", "dmA", "dmB"}
    /\ FoIdle(t) \/ FoDone(t)
    /\ \E f \in FoBegin("user", FrCall(tasks[t])[1], FrCall(tasks[t])[2], "all", Nil,
                          tasks[t].id, "") :
           fo' = [fo EXCEPT ![t] = [f EXCEPT !.log = fo[t].log]]
    /\ tasks' = [tasks EXCEPT ![t].pc = FrCall(tasks[t])[3]]
    /\ UNCHANGED TaskVarsOnly

\* notifyFriendAccepted: hub.GetUserClients(user.ID), then of friend.ID
FrGetClients(t) ==
    /\ tasks[t].type = "friend" /\ tasks[t].pc \in {"getA", "getB"}
    /\ FoDone(t)
    /\ LET p == IF tasks[t].pc = "getA" THEN tasks[t].parts[1] ELSE tasks[t].parts[2]
       IN tasks' = [tasks EXCEPT ![t] =
                       [@ EXCEPT !.pc = IF tasks[t].pc = "getA" THEN "subA" ELSE "subB",
                                 !.list = userClients[p]]]
    /\ UNCHANGED <<fo, TaskVarsOnly>>

\* notifyFriendAccepted: hub.SubscribeToConversation(client, conversation.ID)
\* for the next client of the range, or the end of the range
FrSubscribe(t) ==
    /\ tasks[t].type = "friend" /\ tasks[t].pc \in {"subA", "subB"}
    /\ IF tasks[t].list = {}
       THEN /\ tasks' = [tasks EXCEPT ![t] =
                            IF tasks[t].pc = "subA" THEN [@ EXCEPT !.pc = "getB"] ELSE NoTask]
            /\ fo' = IF tasks[t].pc = "subA" THEN fo ELSE [fo EXCEPT ![t] = NoFo]
            /\ UNCHANGED TaskVarsOnly
       ELSE \E x \in tasks[t].list :
              /\ SubscribeToConversation(x, tasks[t].id)
              /\ tasks' = [tasks EXCEPT ![t].list = @ \ {x}]
              /\ UNCHANGED <<clients, userClients, serverClients, identified, userID,
                             servers, focusVars, presVars, timeVars, lockVars, cacheVars, dbServerMembers, cap, chanVars, conn,
                             hubPc, readVars, writeVars, fo, presence, dbVars, fatal>>

\* ------------------------------------------------------------- WritePump

\* case message, ok := <-c.send, and n := len(c.send) for the batch
WriteRecv(c) ==
    /\ wpc[c] = "select"
    /\ IF send[c] # <<>>
       THEN /\ send' = [send EXCEPT ![c] = Tail(@)]
            /\ IF conn[c] = "closed"
               THEN wpc' = [wpc EXCEPT ![c] = "exit"] /\ UNCHANGED <<wn, wbuf>>
               ELSE /\ wn' = [wn EXCEPT ![c] = Len(send[c]) - 1]
                    /\ wpc' = [wpc EXCEPT ![c] = IF Len(send[c]) > 1 THEN "batch" ELSE "select"]
                    /\ wbuf' = [wbuf EXCEPT ![c] =
                                  IF Len(send[c]) > 1 THEN <<Head(send[c])>> ELSE <<>>]
            /\ UNCHANGED conn
       ELSE /\ closed[c]
            /\ wpc' = [wpc EXCEPT ![c] = "exit"]
            /\ conn' = [conn EXCEPT ![c] = "closed"]
            /\ UNCHANGED <<send, wn, wbuf>>
    /\ UNCHANGED <<hubVars, cliVars, focusVars, presVars, timeVars, lockVars, cacheVars, dbServerMembers, cap, closed, hubPc, readVars, tasks, fo,
                   presence, dbVars, fatal>>

\* a batch loop that takes the newest frame of the queue instead of the oldest
WriteBatchNewest(c) ==
    /\ wpc[c] = "batch"
    /\ send' = [send EXCEPT ![c] = SubSeq(@, 1, Len(@) - 1)]
    /\ wn' = [wn EXCEPT ![c] = @ - 1]
    /\ wbuf' = [wbuf EXCEPT ![c] =
                   IF wn[c] > 1 THEN Append(@, send[c][Len(send[c])]) ELSE <<>>]
    /\ wpc' = [wpc EXCEPT ![c] = IF wn[c] > 1 THEN "batch"
                                 ELSE IF conn[c] = "closed" THEN "exit" ELSE "select"]
    /\ UNCHANGED <<hubVars, cliVars, focusVars, presVars, timeVars, lockVars, cacheVars, dbServerMembers, cap, closed, conn, hubPc,
                   readVars, tasks, fo, presence, dbVars, fatal>>

\* w.Write([]byte{'\n'}); w.Write(<-c.send); w.Close() after the last one. wbuf
\* holds the frames written to w so far
WriteBatch(c) ==
    /\ wpc[c] = "batch"
    /\ send' = [send EXCEPT ![c] = Tail(@)]
    /\ wn' = [wn EXCEPT ![c] = @ - 1]
    /\ wbuf' = [wbuf EXCEPT ![c] = IF wn[c] > 1 THEN Append(@, Head(send[c])) ELSE <<>>]
    /\ wpc' = [wpc EXCEPT ![c] = IF wn[c] > 1 THEN "batch"
                                 ELSE IF conn[c] = "closed" THEN "exit" ELSE "select"]
    /\ UNCHANGED <<hubVars, cliVars, focusVars, presVars, timeVars, lockVars, cacheVars, dbServerMembers, cap, closed, conn, hubPc, readVars, tasks, fo,
                   presence, dbVars, fatal>>

\* case <-ticker.C: the ping cannot be written (closed or broken connection)
WriteFail(c) ==
    /\ wpc[c] = "select"
    /\ wpc' = [wpc EXCEPT ![c] = "exit"]
    /\ conn' = [conn EXCEPT ![c] = "closed"]
    /\ UNCHANGED <<hubVars, cliVars, focusVars, presVars, timeVars, lockVars, cacheVars, dbServerMembers, cap, chanVars, hubPc, readVars, wn, wbuf, tasks, fo,
                   presence, dbVars, fatal>>

\* ------------------------------------------------------------- unsynchronised ranges

\* the maps the next step of some goroutine writes under h.mu: handleUnregister,
\* RegisterIdentifiedClient for a valid token, SubscribeToServer and
\* SubscribeToConversation of LoadUserSubscriptions and of the notifier
MapWrites ==
    (IF hubPc[1] = "unregister" /\ hubPc[2] \in clients
     THEN {<<"user", userID[hubPc[2]]>> : x \in {c \in {hubPc[2]} : identified[c]}}
          \cup {<<"server", v>> : v \in UnregServers(hubPc[2])}
          \cup {<<"conv", k>> : k \in UnregConvs(hubPc[2])}
     ELSE {})
    \cup {<<"user", u>> : u \in {u \in Users : \E c \in Clients :
                                     rpc[c] = "read" /\ ~identified[c]}}
    \cup {<<"server", Min(rtodo[c])>> : c \in {c \in Clients : rpc[c] = "idSubS"}}
    \cup {<<"conv", Min(rtodo[c])>> : c \in {c \in Clients : rpc[c] = "idSubC"}}
    \cup {<<"conv", tasks[t].id>> :
             t \in {t \in TaskIds : tasks[t].type = "groupdm" /\ tasks[t].pc = "sub"}}

\* SendToUser, SendToServer and SendToConversation range over the hub's own map
\* after RUnlock: a write to that map during the range is a data race, which
\* the runtime may detect and end the process for
MapRaceFatal ==
    /\ \E w \in MapWrites : IterOn(w[1], w[2])
    /\ Crash(MapRace)

\* ------------------------------------------------------------- Hub API without callers

\* an UnsubscribeFromServer that calls Client.UnsubscribeServer and leaves the index alone
UnsubscribeClientOnly(c, v) ==
    /\ servers' = [servers EXCEPT ![c] = @ \ {v}]
    /\ UNCHANGED <<hubVars, identified, userID, conversations, focusVars, presVars, timeVars, lockVars, cacheVars, dbServerMembers, cap, chanVars, conn,
                   hubPc, readVars, writeVars, tasks, fo, presence, dbVars, fatal>>

\* UnsubscribeFromServer under h.mu (with Client.UnsubscribeServer)
UnsubscribeFromServer(c, v) ==
    /\ servers' = [servers EXCEPT ![c] = @ \ {v}]
    /\ serverClients' = [serverClients EXCEPT ![v] = @ \ {c}]
    /\ fo' = [th \in Threads |->
                Detach(fo[th], "server", IF serverClients[v] = {c} THEN {v} ELSE {})]
    /\ UNCHANGED <<clients, userClients, conversationClients, identified, userID,
                   conversations, focusVars, presVars, timeVars, lockVars, cacheVars, dbServerMembers, cap, chanVars, conn, hubPc, readVars,
                   writeVars, tasks, presence, dbVars, fatal>>

\* UnsubscribeFromConversation under h.mu (with Client.UnsubscribeConversation)
UnsubscribeFromConversation(c, k) ==
    /\ conversations' = [conversations EXCEPT ![c] = @ \ {k}]
    /\ conversationClients' = [conversationClients EXCEPT ![k] = @ \ {c}]
    /\ fo' = [th \in Threads |->
                Detach(fo[th], "conv", IF conversationClients[k] = {c} THEN {k} ELSE {})]
    /\ UNCHANGED <<clients, userClients, serverClients, identified, userID,
                   servers, focusVars, presVars, timeVars, lockVars, cacheVars, dbServerMembers, cap, chanVars, conn, hubPc, readVars,
                   writeVars, tasks, presence, dbVars, fatal>>

\* ------------------------------------------------------------- specifications

Ids(S) == S \cup {Nil}

\* frames by opcode, with every combination of the payload's ids
IdentifyMsgs == {Msg("Identify", t, Nil, Nil, Nil, FALSE) : t \in Tokens}
OtherOps == (KnownOps \ {"Identify"}) \cup {"Unknown"}
OtherMsgs ==
    {Msg(op, Nil, ch, v, k, n) :
        op \in OtherOps,
        ch \in Ids(Channels), v \in Ids(Servers), k \in Ids(Convs), n \in BOOLEAN}

\* the frames of a client that names a channel with its server or a
\* conversation, never both
WellFormed(m) ==
    \/ m.ch = Nil /\ m.srv = Nil
    \/ m.ch \in Channels /\ m.srv = ChannelServer(m.ch) /\ m.conv = Nil
ClientMsgs ==
    {m \in OtherMsgs : m.op \in ChatOps \cup {"Unknown"} /\ WellFormed(m)
                       /\ (m.nonce => m.op = "MessageCreate")}

\* PresenceUpdate frames: a valid status or not, an activity or none, and the
\* payload that does not decode
PresenceMsgs ==
    {[Msg("PresenceUpdate", Nil, Nil, Nil, Nil, FALSE) EXCEPT !.st = s, !.act = a] :
        s \in validStatuses \cup {"", "away", "?"}, a \in {Nil, 1}}

HeartbeatMsg == Msg("Heartbeat", Nil, Nil, Nil, Nil, FALSE)

Live == fatal = "none"

\* The hub's indices. Connections come and go, sessions identify with a valid
\* token and group DMs are created; no session sends another frame, and the
\* goroutines that write no index (WritePump, broadcastPresenceChange,
\* SetOffline, a reader past its unregister) are not scheduled.
NextHub ==
    \/ \E c \in Clients : Live /\ Accept(c)
    \/ Live /\ RunRegister
    \/ Live /\ HandleUnregister
    \/ \E c \in Clients : Live /\ ReadFail(c)
    \/ \E c \in Clients : Live /\ SendUnregister(c)
    \/ Live /\ MapRaceFatal
    \/ \E c \in Clients : \E msg \in IdentifyMsgs : \E dbok \in BOOLEAN :
           Live /\ ~identified[c] /\ msg.token \in Users /\ ReadFrame(c, msg, dbok)
    \/ \E c \in Clients : Live /\ IdSubscribeServer(c)
    \/ \E c \in Clients : \E dbok \in BOOLEAN : Live /\ IdParticipants(c, dbok)
    \/ \E c \in Clients : Live /\ IdSubscribeConversation(c)
    \/ \E c \in Clients : Live /\ IdSetOnline(c)
    \/ \E c \in Clients : Live /\ IdReady(c)
    \/ \E th \in Threads : Live /\ FoStep(th)
    \/ \E k \in Convs : \E u \in Users : \E fr \in SUBSET (Users \ {u}) :
           Live /\ CreateGroupDM(k, u, fr)
    \/ \E t \in TaskIds : Live /\ GdmDispatch(t)
    \/ \E t \in TaskIds : Live /\ GdmGetClients(t)
    \/ \E t \in TaskIds : Live /\ GdmSubscribe(t)

SpecHub == Init /\ [][NextHub]_vars

\* A new group DM among sessions that come, identify and go. As NextHub, but
\* every query of the durable store succeeds.
NextNotify ==
    \/ \E c \in Clients : Live /\ Accept(c)
    \/ Live /\ RunRegister
    \/ Live /\ HandleUnregister
    \/ \E c \in Clients : Live /\ ReadFail(c)
    \/ \E c \in Clients : Live /\ SendUnregister(c)
    \/ Live /\ MapRaceFatal
    \/ \E c \in Clients : \E msg \in IdentifyMsgs :
           Live /\ ~identified[c] /\ msg.token \in Users /\ ReadFrame(c, msg, TRUE)
    \/ \E c \in Clients : Live /\ IdSubscribeServer(c)
    \/ \E c \in Clients : Live /\ IdParticipants(c, TRUE)
    \/ \E c \in Clients : Live /\ IdSubscribeConversation(c)
    \/ \E c \in Clients : Live /\ IdSetOnline(c)
    \/ \E c \in Clients : Live /\ IdReady(c)
    \/ \E th \in Threads : Live /\ FoStep(th)
    \/ \E k \in Convs : \E u \in Users : \E fr \in SUBSET (Users \ {u}) :
           Live /\ CreateGroupDM(k, u, fr)
    \/ \E t \in TaskIds : Live /\ GdmDispatch(t)
    \/ \E t \in TaskIds : Live /\ GdmGetClients(t)
    \/ \E t \in TaskIds : Live /\ GdmSubscribe(t)

SpecNotify == Init /\ [][NextNotify]_vars

\* every session is connected, identified and back in ReadMessage
AllReady == \A c \in Clients : identified[c] /\ rpc[c] = "read" /\ c \in clients

\* A friend request is accepted when every session has identified; no session
\* comes or goes while the notifier runs, and the write pumps drain the queues.
NextFriend ==
    \/ \E c \in Clients : Live /\ Accept(c)
    \/ Live /\ RunRegister
    \/ \E c \in Clients : \E msg \in IdentifyMsgs :
           Live /\ ~identified[c] /\ msg.token \in Users /\ ReadFrame(c, msg, TRUE)
    \/ \E c \in Clients : Live /\ IdSubscribeServer(c)
    \/ \E c \in Clients : Live /\ IdParticipants(c, TRUE)
    \/ \E c \in Clients : Live /\ IdSubscribeConversation(c)
    \/ \E c \in Clients : Live /\ IdSetOnline(c)
    \/ \E c \in Clients : Live /\ IdReady(c)
    \/ \E c \in Clients : Live /\ WriteRecv(c)
    \/ \E k \in Convs : \E u \in Users : \E fr \in Users :
           Live /\ AllReady /\ AcceptFriend(k, u, fr)
    \/ \E k \in Convs : Live /\ FrDispatch(GdmTask(k))
    \/ \E k \in Convs : Live /\ FoStep(GdmTask(k))
    \/ \E k \in Convs : Live /\ FrGetClients(GdmTask(k))
    \/ \E k \in Convs : Live /\ FrSubscribe(GdmTask(k))

SpecFriend == Init /\ [][NextFriend]_vars

\* The authentication gate. Sessions send every kind of frame before Identify
\* and Identify at any time, and each WritePump drains its queue.
NextGate ==
    \/ \E c \in Clients : Live /\ Accept(c)
    \/ Live /\ RunRegister
    \/ Live /\ HandleUnregister
    \/ \E c \in Clients : Live /\ ReadFail(c)
    \/ \E c \in Clients : Live /\ SendUnregister(c)
    \/ \E c \in Clients : Live /\ BadJSON(c)
    \/ \E c \in Clients : \E msg \in IdentifyMsgs : \E dbok \in BOOLEAN :
           Live /\ ReadFrame(c, msg, dbok)
    \/ \E c \in Clients : \E msg \in {m \in OtherMsgs : WellFormed(m)} :
           Live /\ ~identified[c] /\ ReadFrame(c, msg, TRUE)
    \/ \E c \in Clients : Live /\ IdSubscribeServer(c)
    \/ \E c \in Clients : \E dbok \in BOOLEAN : Live /\ IdParticipants(c, dbok)
    \/ \E c \in Clients : Live /\ IdSubscribeConversation(c)
    \/ \E c \in Clients : Live /\ IdSetOnline(c)
    \/ \E c \in Clients : Live /\ IdReady(c)
    \/ \E c \in Clients : Live /\ WriteRecv(c)

SpecGate == Init /\ [][NextGate]_vars

\* the steps every fan-out specification has: connections come and go and
\* sessions identify with a valid token; the goroutines that call no handler
\* (WritePump, broadcastPresenceChange, SetOffline) are not scheduled
NextSessions ==
    \/ \E c \in Clients : Live /\ Accept(c)
    \/ Live /\ RunRegister
    \/ Live /\ HandleUnregister
    \/ \E c \in Clients : Live /\ ReadFail(c)
    \/ \E c \in Clients : Live /\ SendUnregister(c)
    \/ Live /\ MapRaceFatal
    \/ \E c \in Clients : \E msg \in IdentifyMsgs :
           Live /\ ~identified[c] /\ msg.token \in Users /\ ReadFrame(c, msg, TRUE)
    \/ \E c \in Clients : Live /\ IdSubscribeServer(c)
    \/ \E c \in Clients : Live /\ IdParticipants(c, TRUE)
    \/ \E c \in Clients : Live /\ IdSubscribeConversation(c)
    \/ \E c \in Clients : Live /\ IdSetOnline(c)
    \/ \E c \in Clients : Live /\ IdReady(c)
    \/ \E th \in Threads : Live /\ FoStep(th)
    \/ \E c \in Clients : Live /\ TypingDone(c)

\* Fan-out to a server: identified sessions set their focus, type and create
\* messages in channels
NextChannel ==
    \/ NextSessions
    \/ \E c \in Clients : \E msg \in ClientMsgs : \E dbok \in BOOLEAN :
           Live /\ identified[c] /\ msg.op # "Unknown" /\ msg.conv = Nil
                /\ ReadFrame(c, msg, dbok)
    \/ \E c \in Clients : Live /\ ChanDispatch(c)
    \/ \E c \in Clients : Live /\ ChanDone(c)

SpecChannel == Init /\ [][NextChannel]_vars

\* Fan-out to a conversation: identified sessions set their focus, type and
\* create messages in conversations
NextDM ==
    \/ NextSessions
    \/ \E c \in Clients : \E msg \in ClientMsgs : \E dbok \in BOOLEAN :
           Live /\ identified[c] /\ msg.op # "Unknown" /\ msg.ch = Nil
                /\ ReadFrame(c, msg, dbok)
    \/ \E c \in Clients : Live /\ DMDispatch(c)
    \/ \E c \in Clients : Live /\ DMDone(c)

SpecDM == Init /\ [][NextDM]_vars

\* The hub's API. As NextHub, and UnsubscribeFromServer and
\* UnsubscribeFromConversation are called for sessions that have connected.
NextApi ==
    \/ NextHub
    \/ \E c \in Clients : \E v \in Servers :
           Live /\ conn[c] # "none" /\ UnsubscribeFromServer(c, v)
    \/ \E c \in Clients : \E k \in Convs :
           Live /\ conn[c] # "none" /\ UnsubscribeFromConversation(c, k)

SpecApi == Init /\ [][NextApi]_vars

\* The presence broadcasts. Every user is a participant of every conversation;
\* sessions come and go and identify, and the broadcastPresenceChange
\* goroutines that Identify and the unregister of a last session start run
\* their fan-outs. The SetOffline goroutines are not scheduled and no time
\* passes.
InitBroadcast == Init /\ dbParticipants = [k \in Convs |-> Users]

NextBroadcast ==
    \/ \E c \in Clients : Live /\ Accept(c)
    \/ Live /\ RunRegister
    \/ Live /\ HandleUnregister
    \/ \E c \in Clients : Live /\ ReadFail(c)
    \/ \E c \in Clients : Live /\ SendUnregister(c)
    \/ Live /\ MapRaceFatal
    \/ \E c \in Clients : \E msg \in IdentifyMsgs :
           Live /\ ~identified[c] /\ msg.token \in Users /\ ReadFrame(c, msg, TRUE)
    \/ \E c \in Clients : Live /\ IdSubscribeServer(c)
    \/ \E c \in Clients : Live /\ IdParticipants(c, TRUE)
    \/ \E c \in Clients : Live /\ IdSubscribeConversation(c)
    \/ \E c \in Clients : Live /\ IdSetOnline(c)
    \/ \E c \in Clients : Live /\ IdReady(c)
    \/ \E t \in TaskIds : Live /\ BcastServer(t)
    \/ \E t \in TaskIds : Live /\ BcastParticipants(t)
    \/ \E t \in TaskIds : Live /\ BcastConversation(t)
    \/ \E t \in TaskIds : Live /\ BcastDone(t)
    \/ \E th \in Threads : Live /\ FoStep(th)

SpecBroadcast == InitBroadcast /\ [][NextBroadcast]_vars

\* Going offline. Sessions come and go, identify and send heartbeats, and the
\* SetOffline goroutines that the unregister of a last session starts run; the
\* broadcastPresenceChange goroutines are started and not scheduled, and no
\* time passes.
NextOffline ==
    \/ \E c \in Clients : Live /\ Accept(c)
    \/ Live /\ RunRegister
    \/ Live /\ HandleUnregister
    \/ \E c \in Clients : Live /\ ReadFail(c)
    \/ \E c \in Clients : Live /\ SendUnregister(c)
    \/ \E c \in Clients : \E msg \in IdentifyMsgs :
           Live /\ ~identified[c] /\ msg.token \in Users /\ ReadFrame(c, msg, TRUE)
    \/ \E c \in Clients : Live /\ IdSubscribeServer(c)
    \/ \E c \in Clients : Live /\ IdParticipants(c, TRUE)
    \/ \E c \in Clients : Live /\ IdSubscribeConversation(c)
    \/ \E c \in Clients : Live /\ IdSetOnline(c)
    \/ \E c \in Clients : Live /\ IdReady(c)
    \/ \E c \in Clients : Live /\ identified[c] /\ ReadFrame(c, HeartbeatMsg, TRUE)
    \/ \E t \in TaskIds : Live /\ OfflineTask(t)

SpecOffline == Init /\ [][NextOffline]_vars

\* The read deadline. Sessions identify, send heartbeats and answer pings
\* while the clock of the connections advances; a read that reaches its
\* deadline fails, and the write pumps drain the queues.
NextTimer ==
    \/ NextOffline
    \/ \E c \in Clients : Live /\ WriteRecv(c)
    \/ \E c \in Clients : Live /\ Pong(c)
    \/ \E c \in Clients : Live /\ ReadTimeout(c)
    \/ Live /\ TickRead

SpecTimer == Init /\ [][NextTimer]_vars

\* the PresenceUpdate frames of the clock scenario: one valid and one invalid status
ClockMsgs == {m \in PresenceMsgs : m.act = Nil /\ m.st \in {"idle", "away"}}

\* sessions that identify, send Heartbeat and PresenceUpdate frames and go away while
\* the key-value store's clock advances and the write pumps drain the queues
NextClock ==
    \/ NextOffline
    \/ \E c \in Clients : \E msg \in ClockMsgs :
           Live /\ identified[c] /\ ReadFrame(c, msg, TRUE)
    \/ \E c \in Clients : Live /\ WriteRecv(c)
    \/ Live /\ Tick

SpecClock == Init /\ [][NextClock]_vars

\* sessions that identify and send PresenceUpdate frames of every kind while the
\* write pumps drain the queues
NextStatus ==
    \/ \E c \in Clients : Live /\ Accept(c)
    \/ Live /\ RunRegister
    \/ Live /\ HandleUnregister
    \/ \E c \in Clients : Live /\ ReadFail(c)
    \/ \E c \in Clients : Live /\ SendUnregister(c)
    \/ \E c \in Clients : \E msg \in IdentifyMsgs :
           Live /\ ~identified[c] /\ msg.token \in Users /\ ReadFrame(c, msg, TRUE)
    \/ \E c \in Clients : Live /\ IdSubscribeServer(c)
    \/ \E c \in Clients : Live /\ IdParticipants(c, TRUE)
    \/ \E c \in Clients : Live /\ IdSubscribeConversation(c)
    \/ \E c \in Clients : Live /\ IdSetOnline(c)
    \/ \E c \in Clients : Live /\ IdReady(c)
    \/ \E c \in Clients : \E msg \in PresenceMsgs :
           Live /\ identified[c] /\ ReadFrame(c, msg, TRUE)
    \/ \E c \in Clients : Live /\ WriteRecv(c)

SpecStatus == Init /\ [][NextStatus]_vars

\* the opcodes that persist or change messages and read markers
IngestOps == {"MessageCreate", "MessageEdit", "MessageDelete", "MessageAck"}

\* ingest frames for a conversation, with payloads that decode: a new message
\* has no id yet, an edit, a delete and an ack name a message
IngestMsgs ==
    {m \in {[Msg(op, Nil, Nil, Nil, k, FALSE) EXCEPT !.id = i] :
                op \in IngestOps, k \in Convs, i \in 0..MaxMsgs} :
        (m.op = "MessageCreate") <=> (m.id = Nil)}

\* sessions of users who take part in no conversation identify and send ingest
\* frames for the conversations, while the write pumps drain the queues; the
\* participants query of Identify returns no row, so its loop has no step
InitOutsider == Init /\ dbParticipants = [k \in Convs |-> {}]

NextOutsider ==
    \/ \E c \in Clients : Live /\ Accept(c)
    \/ Live /\ RunRegister
    \/ Live /\ HandleUnregister
    \/ \E c \in Clients : Live /\ ReadFail(c)
    \/ \E c \in Clients : Live /\ SendUnregister(c)
    \/ \E c \in Clients : \E msg \in IdentifyMsgs :
           Live /\ ~identified[c] /\ msg.token \in Users /\ ReadFrame(c, msg, TRUE)
    \/ \E c \in Clients : Live /\ IdSubscribeServer(c)
    \/ \E c \in Clients : Live /\ IdParticipants(c, TRUE)
    \/ \E c \in Clients : Live /\ IdSetOnline(c)
    \/ \E c \in Clients : Live /\ IdReady(c)
    \/ \E c \in Clients : \E msg \in IngestMsgs : \E dbok \in BOOLEAN :
           Live /\ identified[c] /\ ReadFrame(c, msg, dbok)
    \/ \E c \in Clients : Live /\ WriteRecv(c)

SpecOutsider == InitOutsider /\ [][NextOutsider]_vars

\* frames with an opcode the gateway does not know
UnknownMsgs == {m \in OtherMsgs : m.op = "Unknown" /\ WellFormed(m) /\ ~m.nonce}

\* sessions that identify, set their focus, send Heartbeat frames, frames that
\* are not JSON and frames with an unknown opcode, and go away, while the
\* write pumps drain the queues
NextMalformed ==
    \/ NextOffline
    \/ \E c \in Clients : Live /\ BadJSON(c)
    \/ \E c \in Clients : \E msg \in UnknownMsgs :
           Live /\ identified[c] /\ ReadFrame(c, msg, TRUE)
    \/ \E c \in Clients : \E msg \in {m \in ClientMsgs : m.op = "FocusChange"} :
           Live /\ identified[c] /\ ReadFrame(c, msg, TRUE)
    \/ \E c \in Clients : Live /\ WriteRecv(c)

SpecMalformed == Init /\ [][NextMalformed]_vars

\* Going offline, and the hub is sent the unregister of a session a second time
NextRepeat ==
    \/ NextOffline
    \/ \E c \in Clients : Live /\ UnregisterAgain(c)

SpecRepeat == Init /\ [][NextRepeat]_vars

\* the FocusChange frames a client can send: FocusPayload with each of
\* channel_id, server_id and conversation_id present or left out
FocusMsgs ==
    {Msg("FocusChange", Nil, ch, srv, conv, FALSE) :
        ch \in Channels \cup {Nil}, srv \in Servers \cup {Nil}, conv \in Convs \cup {Nil}}

\* sessions that identify and send FocusChange frames of every shape while the
\* write pumps drain the queues
NextFocus ==
    \/ NextOffline
    \/ \E c \in Clients : \E msg \in FocusMsgs :
           Live /\ identified[c] /\ ReadFrame(c, msg, TRUE)
    \/ \E c \in Clients : Live /\ WriteRecv(c)

SpecFocus == Init /\ [][NextFocus]_vars

\* the Heartbeat frames of a client: HeartbeatPayload{Timestamp: ts}
HeartbeatMsgs == {[HeartbeatMsg EXCEPT !.ts = x] : x \in 0..MaxNow}

\* sessions that identify and send Heartbeat frames with the time of their own
\* clocks while the server's clock advances and the write pumps drain the queues
NextBeat ==
    \/ NextOffline
    \/ \E c \in Clients : \E msg \in HeartbeatMsgs :
           Live /\ identified[c] /\ ReadFrame(c, msg, TRUE)
    \/ \E c \in Clients : Live /\ WriteRecv(c)
    \/ Live /\ ClockAdvance

SpecBeat == Init /\ [][NextBeat]_vars

\* unidentified sessions are answered 4000 and 4001 through channels that hold
\* BatchCap frames, their write pumps write single and batched messages, and
\* connections fail on either side
InitWriter == InitCap(BatchCap)

NextWriter ==
    \/ \E c \in Clients : Live /\ Accept(c)
    \/ Live /\ RunRegister
    \/ Live /\ HandleUnregister
    \/ \E c \in Clients : Live /\ ReadFail(c)
    \/ \E c \in Clients : Live /\ SendUnregister(c)
    \/ \E c \in Clients : Live /\ ReaderClose(c)
    \/ \E c \in Clients : Live /\ BadJSON(c)
    \/ \E c \in Clients : Live /\ ReadFrame(c, HeartbeatMsg, TRUE)
    \/ \E c \in Clients : Live /\ WriteRecv(c)
    \/ \E c \in Clients : Live /\ WriteBatch(c)
    \/ \E c \in Clients : Live /\ WriteFail(c)

SpecWriter == InitWriter /\ [][NextWriter]_vars

\* c.conn.ReadMessage() on a connection that was closed returns an error
ReadClosed(c) == conn[c] = "closed" /\ ReadFail(c)

\* the scheduler runs every goroutine that can take a step: Run does not stay
\* in a case, a deferred function is not suspended for ever, a read of a closed
\* connection returns, and the write pump receives from a channel that has
\* frames or is closed. Nothing is assumed of the peer or of the network: the
\* errors ReadFail and WriteFail of an open connection may never come
FairTeardown ==
    /\ WF_vars(Live /\ RunRegister)
    /\ WF_vars(Live /\ HandleUnregister)
    /\ \A c \in Clients :
          /\ WF_vars(Live /\ ReadClosed(c))
          /\ WF_vars(Live /\ SendUnregister(c))
          /\ WF_vars(Live /\ ReaderClose(c))
          /\ WF_vars(Live /\ WriteRecv(c))
          /\ WF_vars(Live /\ WriteBatch(c))

SpecTeardown == SpecWriter /\ FairTeardown

\* the opcodes that create and change messages
AuthorOps == {"MessageCreate", "MessageEdit", "MessageDelete"}
\* their frames for a channel of a server or for a conversation, with payloads
\* that decode
AuthorMsgs ==
    {m \in {[Msg(op, Nil, p[1], p[2], p[3], FALSE) EXCEPT !.id = i] :
                op \in AuthorOps, i \in 0..MaxMsgs,
                p \in {<<ch, ChannelServer(ch), Nil>> : ch \in Channels}
                         \cup {<<Nil, Nil, k>> : k \in Convs}} :
        (m.op = "MessageCreate") <=> (m.id = Nil)}
\* sessions of the participants of every conversation stay connected, create
\* messages in a store that may fail, edit and delete them, and the write
\* pumps drain the queues
InitAuthor == Init /\ dbParticipants = [k \in Convs |-> Users]

NextAuthor ==
    \/ \E c \in Clients : Live /\ Accept(c)
    \/ Live /\ RunRegister
    \/ \E c \in Clients : \E msg \in IdentifyMsgs :
           Live /\ ~identified[c] /\ msg.token \in Users /\ ReadFrame(c, msg, TRUE)
    \/ \E c \in Clients : Live /\ IdSubscribeServer(c)
    \/ \E c \in Clients : Live /\ IdParticipants(c, TRUE)
    \/ \E c \in Clients : Live /\ IdSubscribeConversation(c)
    \/ \E c \in Clients : Live /\ IdSetOnline(c)
    \/ \E c \in Clients : Live /\ IdReady(c)
    \/ \E c \in Clients : \E msg \in AuthorMsgs : \E dbok \in BOOLEAN :
           Live /\ identified[c] /\ (dbok \/ msg.op = "MessageCreate")
                /\ ReadFrame(c, msg, dbok)
    \/ \E th \in Threads : Live /\ FoStep(th)
    \/ \E c \in Clients : Live /\ TypingDone(c)
    \/ \E c \in Clients : Live /\ ChanDispatch(c)
    \/ \E c \in Clients : Live /\ ChanDone(c)
    \/ \E c \in Clients : Live /\ DMDispatch(c)
    \/ \E c \in Clients : Live /\ DMDone(c)
    \/ \E c \in Clients : Live /\ WriteRecv(c)

SpecAuthor == InitAuthor /\ [][NextAuthor]_vars

\* ------------------------------------------------------------- properties

InNoIndex(s) ==
    /\ \A u \in Users : s \notin userClients[u]
    /\ \A v \in Servers : s \notin serverClients[v]
    /\ \A k \in Convs : s \notin conversationClients[k]

\* C1: when Run has processed unregister(s) for a session s of h.clients, s is
\* in none of clients, userClients, serverClients and conversationClients and
\* its send channel is closed, identified or not and whatever its subscriptions.
C1_UnregisterClears ==
    [][(hubPc[1] = "unregister" /\ hubPc[2] \in clients /\ hubPc' = <<"select", Nil>>)
          => /\ hubPc[2] \notin clients'
             /\ \A u \in Users : hubPc[2] \notin userClients'[u]
             /\ \A v \in Servers : hubPc[2] \notin serverClients'[v]
             /\ \A k \in Convs : hubPc[2] \notin conversationClients'[k]
             /\ closed'[hubPc[2]]]_vars

\* an identified session with server and conversation subscriptions has been
\* unregistered, and the hub is back at its select
C1_Witness ==
    \E s \in Clients :
        /\ closed[s] /\ identified[s] /\ servers[s] # {} /\ conversations[s] # {}
        /\ s \notin clients /\ InNoIndex(s)
        /\ hubPc = <<"select", Nil>>

\* C2: once unregister(s) has completed, s is in no entry of userClients,
\* serverClients or conversationClients, in every interleaving with Identify
\* and with the notifier's GetUserClients / SubscribeToConversation.
C2_NeverIndexedAgain == \A s \in Clients : closed[s] => InNoIndex(s)

\* C3: a Send to a session whose send channel unregister has closed is a
\* no-op: the process never ends with "send on closed channel".
C3_SendAfterCloseIsNoOp == fatal # "send on closed channel"

\* the sessions a fan-out found in its index entry at the snapshot and that
\* are in the entry still
Remaining(f) == f.snap \cap IndexOf(f.idx)[f.id]

\* a fan-out is over: its range has ended, or the process has with it
Over(f) == f.idx # "none" /\ (f.cur = Nil \/ fatal = "send on closed channel")

\* C4: when a channel message dispatch on (S, C) is over, every session of
\* serverClients[S] has been sent exactly one frame, CHANNEL_MESSAGE_CREATE or
\* CHANNEL_MESSAGE_NOTIFY; none was sent both and none neither.
C4_ChannelDispatchReachesAll ==
    \A th \in Threads :
        (fo[th].mode = "channel" /\ Over(fo[th]))
            => \A x \in Remaining(fo[th]) : Len(fo[th].log[x]) = 1

\* C5: when a DM message dispatch on D is over, every session of
\* conversationClients[D] has been sent exactly one frame, DM_MESSAGE_CREATE or
\* DM_MESSAGE_NOTIFY.
C5_DMDispatchReachesAll ==
    \A th \in Threads :
        (fo[th].mode = "dm" /\ Over(fo[th]))
            => \A x \in Remaining(fo[th]) : Len(fo[th].log[x]) = 1

TypingEvents == {"TYPING_START", "TYPING_STOP"}

\* C6: a TYPING_START or TYPING_STOP frame is sent only to a session whose
\* focus, at the Send, is the channel or the conversation of the typing frame.
C6_TypingFocusedOnly ==
    [][\A th \in Threads : \A x \in Clients :
          (fo'[th].ev \in TypingEvents /\ fo[th].ev \in TypingEvents
              /\ Len(fo'[th].log[x]) > Len(fo[th].log[x]))
             => IF fo[th].idx = "server" THEN IsFocusedOnChannel(x, fo[th].arg)
                ELSE IsFocusedOnConversation(x, fo[th].id)]_vars

\* C7: every session of userClients[u] is identified and has userID = u.
C7_ByUserIdentified ==
    \A u \in Users : \A s \in userClients[u] : identified[s] /\ userID[s] = u

\* a user has a session in userClients while another session of the same user
\* has been unregistered
C7_Witness ==
    \E u \in Users : \E s \in userClients[u] : \E r \in Clients :
        r # s /\ closed[r] /\ identified[r] /\ userID[r] = u

\* C8: every session of serverClients[v] has v in its servers, and every
\* session of conversationClients[k] has k in its conversations, after any
\* sequence of subscribe, unsubscribe, identify and unregister.
C8_IndexImpliesSubscribed ==
    /\ \A v \in Servers : \A s \in serverClients[v] : v \in servers[s]
    /\ \A k \in Convs : \A s \in conversationClients[k] : k \in conversations[s]

\* a session is in a server entry and a conversation entry while a second,
\* registered and identified, is in no server entry and has a conversation
C8_Witness ==
    \E s \in Clients : \E r \in Clients \ {s} :
        /\ \E v \in Servers : s \in serverClients[v]
        /\ \E k \in Convs : s \in conversationClients[k]
        /\ r \in clients /\ identified[r] /\ rpc[r] = "read" /\ servers[r] = {}
        /\ conversations[r] # {}

ByUserAgrees(s) ==
    \A u \in Users : s \in userClients[u] <=> (identified[s] /\ userID[s] = u)
ByServerAgrees(s) ==
    \A v \in Servers : s \in serverClients[v] <=> v \in servers[s]
ByConversationAgrees(s) ==
    \A k \in Convs : s \in conversationClients[k] <=> k \in conversations[s]

\* C9 (as stated): for every session, unregistered ones included, the session
\* is in userClients[u] iff it is identified as u, in serverClients[v] iff v is
\* in its servers, in conversationClients[k] iff k is in its conversations.
C9_AgreementForAll ==
    \A s \in Clients : ByUserAgrees(s) /\ ByServerAgrees(s) /\ ByConversationAgrees(s)

\* C9 (amended): the indices and the session state agree in both directions
\* for every session whose unregister has not been processed; an unregistered
\* session keeps identified, userID, servers and conversations, and for it the
\* index entries still imply the session state.
C9_AgreementUntilUnregister ==
    \A s \in Clients :
        IF closed[s]
        THEN /\ \A u \in Users : s \in userClients[u] => (identified[s] /\ userID[s] = u)
             /\ \A v \in Servers : s \in serverClients[v] => v \in servers[s]
             /\ \A k \in Convs : s \in conversationClients[k] => k \in conversations[s]
        ELSE ByUserAgrees(s) /\ ByServerAgrees(s) /\ ByConversationAgrees(s)

\* a registered session agrees with the indices on a user, a server and a
\* conversation while an unregistered one keeps its state outside the indices
C9_Witness ==
    \E s \in Clients : \E r \in Clients :
        /\ ~closed[s] /\ identified[s] /\ servers[s] # {} /\ conversations[s] # {}
        /\ closed[r] /\ identified[r] /\ servers[r] # {} /\ InNoIndex(r)

\* C10: a frame with an opcode other than Identify that a session reads while
\* it is not identified is answered with the error frame 4001 and changes
\* nothing else: no session, hub, presence or durable-store state.
C10_GateRepliesOnly ==
    [][\A c \in Clients :
          (~identified[c] /\ rpc[c] = "read"
              /\ \E msg \in OtherMsgs : WellFormed(msg) /\ ReadFrame(c, msg, TRUE))
             => /\ send' = [send EXCEPT ![c] = Enqueue(@, ErrorFrame(4001))]
                /\ UNCHANGED <<hubVars, cliVars, focusVars, presVars, timeVars, lockVars, cacheVars, dbServerMembers, cap, closed, conn, hubPc, readVars,
                               writeVars, tasks, fo, presence, dbVars, fatal>>]_vars

\* a session that is not identified holds the error frame 4001 in its queue
C10_Witness ==
    \E c \in Clients :
        ~identified[c] /\ rpc[c] = "read" /\ send[c] = <<ErrorFrame(4001)>>

\* everything but the send queues
AllButSend == <<hubVars, cliVars, focusVars, presVars, timeVars, lockVars, cacheVars, dbServerMembers, cap, closed, conn, hubPc, readVars,
                writeVars, tasks, fo, presence, dbVars, fatal>>

\* C11: an Identify frame read by a session that is identified already is
\* answered with the error frame 4003 and changes nothing else: not the
\* session's userID, subscriptions or focus, no index of the hub and no
\* presence record.
C11_SecondIdentifyRejected ==
    [][\A c \in Clients :
          (identified[c] /\ rpc[c] = "read"
              /\ \E msg \in IdentifyMsgs : \E dbok \in BOOLEAN : ReadFrame(c, msg, dbok))
             => /\ send' = [send EXCEPT ![c] = Enqueue(@, ErrorFrame(4003))]
                /\ UNCHANGED AllButSend]_vars

\* an identified session back at its read holds the error frame 4003
C11_Witness ==
    \E c \in Clients :
        identified[c] /\ rpc[c] = "read" /\ send[c] = <<ErrorFrame(4003)>>

\* the tokens that are missing, unknown or expired, or of a user that is gone
BadTokens == Tokens \ Users

\* C12: an Identify whose token is missing, unknown, expired or of a user
\* that does not exist is answered with op InvalidSession and changes nothing
\* else: the session stays unidentified and at its read, no index and no
\* presence record is written, the connection stays as it is; and a session
\* that is unidentified and at its read can identify with every valid token.
C12_InvalidIdentify ==
    /\ [][\A c \in Clients :
             (~identified[c] /\ rpc[c] = "read"
                 /\ \E msg \in IdentifyMsgs : \E dbok \in BOOLEAN :
                        msg.token \in BadTokens /\ ReadFrame(c, msg, dbok))
                => /\ send' = [send EXCEPT ![c] = Enqueue(@, OpFrame("InvalidSession"))]
                   /\ UNCHANGED AllButSend]_vars
    /\ [](\A c \in Clients : \A u \in Users :
             (~identified[c] /\ rpc[c] = "read")
                => ENABLED (/\ ReadFrame(c, Msg("Identify", u, Nil, Nil, Nil, FALSE), TRUE)
                            /\ identified'[c] /\ userID'[c] = u /\ c \in userClients'[u]))

\* a session whose queue still holds the InvalidSession reply has identified
\* since and is back at its read
C12_Witness ==
    \E c \in Clients :
        identified[c] /\ rpc[c] = "read" /\ send[c] = <<OpFrame("InvalidSession")>>

\* the servers and conversations a broadcastPresenceChange has not begun to
\* dispatch to
Unreached(t) ==
    IF tasks[t].pc = "srv"
    THEN {<<"server", v>> : v \in tasks[t].todo}
         \cup {<<"conv", k>> : k \in {k \in Convs : tasks[t].u \in dbParticipants[k]}}
    ELSE {<<"conv", k>> : k \in tasks[t].todo}

\* C13: an Identify with a valid token for user u writes the presence record
\* of u as online with the full TTL; when it completes the session is
\* identified as u, is in userClients[u], in serverClients[v] for every
\* membership and in conversationClients[k] for every participation of u, has
\* been sent one Ready frame and the broadcast of PRESENCE_UPDATE(online) has
\* started; and that broadcast is dispatched to every server and conversation
\* of u: it never ends, with the process, short of one of them.
C13_IdentifyEffects ==
    /\ [][\A c \in Clients :
             /\ (rpc[c] = "idOnline" /\ rpc'[c] = "idReady")
                   => presence'[userID[c]] =
                         [status |-> "online", activity |-> Nil,
                          ttl |-> TTLTicks, wttl |-> TTLTicks]
             /\ (rpc[c] = "idReady" /\ rpc'[c] = "read")
                   => /\ identified[c] /\ c \in userClients[userID[c]]
                      /\ \A v \in dbMembers(userID[c]) : c \in serverClients[v]
                      /\ \A k \in Convs :
                            userID[c] \in dbParticipants[k] => c \in conversationClients[k]
                      /\ send'[c] = Enqueue(send[c], OpFrame("Ready"))
                      /\ tasks'[OnlineTask(c)].type = "bcast"
                      /\ tasks'[OnlineTask(c)].st = "online"
                      /\ tasks'[OnlineTask(c)].u = userID[c]]_vars
    /\ [](fatal = "send on closed channel"
            => \A c \in Clients :
                  tasks[OnlineTask(c)].type = "bcast" => Unreached(OnlineTask(c)) = {})

\* C14: when Run processes the unregister of an identified session c of user
\* u, then if userClients[u] becomes empty one SetOffline(u) and one broadcast
\* of PRESENCE_UPDATE(u, offline) are started, neither having been started for
\* c before, and if another session of u remains neither is started; nothing
\* else starts them, and the SetOffline deletes the presence record of u.
C14_OfflineOnLastSession ==
    [][/\ (hubPc[1] = "unregister" /\ hubPc' = <<"select", Nil>>
              /\ hubPc[2] \in clients /\ identified[hubPc[2]])
          => LET c == hubPc[2]
                 u == userID[c]
             IN IF userClients'[u] = {}
                THEN /\ tasks[OfflineSet(c)].type = "free"
                     /\ tasks[OfflineBcast(c)].type = "free"
                     /\ tasks' = [tasks EXCEPT
                           ![OfflineSet(c)] = Task("offline", "del", u, Nil, "", {}),
                           ![OfflineBcast(c)] =
                               Task("bcast", "srv", u, Nil, "offline", dbMembers(u))]
                ELSE tasks' = tasks
       /\ \A t \in TaskIds :
             (tasks'[t] # tasks[t] /\ (tasks'[t].type = "offline" \/ tasks'[t].st = "offline"))
                => /\ hubPc[1] = "unregister" /\ hubPc[2] \in clients
                   /\ t \in {OfflineSet(hubPc[2]), OfflineBcast(hubPc[2])}
       /\ \A t \in TaskIds :
             (tasks[t].type = "offline" /\ tasks'[t].type = "free")
                => presence'[tasks[t].u].ttl = 0]_vars

\* two sessions of one user have been unregistered: for the first neither
\* goroutine was started, for the second, the last, both were
C14_Witness ==
    \E r \in Clients : \E s \in Clients \ {r} :
        /\ closed[r] /\ closed[s] /\ identified[r] /\ identified[s]
        /\ userID[r] = userID[s]
        /\ tasks[OfflineBcast(r)].type = "free"
        /\ tasks[OfflineBcast(s)].type = "bcast" /\ tasks[OfflineBcast(s)].st = "offline"
        /\ tasks[OfflineSet(s)].type = "free" /\ ~PresenceExists(userID[s])

\* C15 (its first half): while a session of user u is open, in userClients[u]
\* and past the SetOnline of its Identify, the presence record of u exists,
\* in every interleaving of the unregister of u's last session with the
\* Identify of another session of u (no time passes, so no key expires).
C15_NoSpuriousOffline ==
    \A c \in Clients :
        (identified[c] /\ ~closed[c] /\ conn[c] = "open"
            /\ c \in userClients[userID[c]] /\ rpc[c] \in {"idReady", "read"})
           => PresenceExists(userID[c])

\* no Identify of a session of u and no SetOffline(u) is in progress
Settled(u) ==
    /\ \A c \in userClients[u] : rpc[c] = "read"
    /\ \A t \in TaskIds : ~(tasks[t].type = "offline" /\ tasks[t].u = u)

\* C16 (as stated): the presence record of user u exists if and only if
\* userClients[u] is non-empty or the TTL has not yet elapsed since the
\* record's last write; read in the states where no Identify of a session of
\* u and no SetOffline(u) is in progress, where it asks the least.
C16_PresenceIffSessionsOrTTL ==
    \A u \in Users :
        Settled(u) => (PresenceExists(u) <=> (userClients[u] # {} \/ presence[u].wttl > 0))

\* C16 (amended): the presence record of user u exists only while its TTL has
\* not elapsed since its last write or refresh, and only while userClients[u]
\* is non-empty or the SetOffline(u) started by the unregister of u's last
\* session has not run yet; a non-empty userClients[u] does not imply it.
C16_PresenceOnlyWhileFresh ==
    \A u \in Users :
        PresenceExists(u)
           => /\ presence[u].ttl \in 1..TTLTicks
              /\ \/ userClients[u] # {}
                 \/ \E t \in TaskIds : tasks[t].type = "offline" /\ tasks[t].u = u

\* the last session of u is gone, time has passed since the record was written,
\* and the record is still there because SetOffline(u) has not run yet
C16_Witness ==
    \E u \in Users :
        /\ PresenceExists(u) /\ presence[u].ttl < TTLTicks
        /\ userClients[u] = {}
        /\ \E t \in TaskIds : tasks[t].type = "offline" /\ tasks[t].u = u

AllButSendPresence == <<hubVars, cliVars, focusVars, presVars, timeVars, lockVars, cacheVars, dbServerMembers, cap, closed, conn, hubPc, readVars,
                        writeVars, tasks, fo, dbVars, fatal>>

\* C17: a Heartbeat frame read by an identified session of user u resets the
\* TTL of u's presence record when the record exists and leaves its status and
\* activity as they are, leaves an absent record absent, touches no other
\* record, starts no broadcast and dispatches nothing, and sends one
\* HeartbeatAck to the sender only.
C17_HeartbeatRefreshOnly ==
    [][\A c \in Clients :
          (identified[c] /\ rpc[c] = "read" /\ ReadFrame(c, HeartbeatMsg, TRUE))
             => /\ presence'[userID[c]].status = presence[userID[c]].status
                /\ presence'[userID[c]].activity = presence[userID[c]].activity
                /\ presence'[userID[c]].ttl =
                      IF PresenceExists(userID[c]) THEN TTLTicks ELSE 0
                /\ \A w \in Users \ {userID[c]} : presence'[w] = presence[w]
                /\ send' = [send EXCEPT ![c] = Enqueue(@, OpFrame("HeartbeatAck"))]
                /\ UNCHANGED AllButSendPresence]_vars

\* a session's Heartbeat has been acknowledged and has given the record of its
\* user, written some time ago, its full TTL again
C17_Witness ==
    \E c \in Clients :
        /\ identified[c] /\ send[c] = <<OpFrame("HeartbeatAck")>>
        /\ presence[userID[c]].ttl = TTLTicks
        /\ presence[userID[c]].wttl < TTLTicks
        /\ presence[userID[c]].status = "online"

\* C18: the time left of the presence record of user u grows only in a step
\* in which a session of u handles a Heartbeat or a PresenceUpdate frame or
\* runs the SetOnline of its Identify; every tick of the clock takes one unit
\* from it and removes the record when none is left, whether or not sessions
\* of u are connected and in userClients[u]. So a record that no frame renews
\* for TTLTicks ticks is absent afterwards.
C18_RefreshOnlyByFrames ==
    [][/\ \A u \in Users :
             presence'[u].ttl > presence[u].ttl
                => \E c \in Clients :
                      /\ userID'[c] = u
                      /\ \/ rpc[c] = "idOnline" /\ rpc'[c] = "idReady"
                         \/ /\ rpc[c] = "read" /\ identified[c]
                            /\ \E msg \in ClockMsgs \cup {HeartbeatMsg} :
                                   ReadFrame(c, msg, TRUE)
       /\ Tick => \A u \in Users :
                     /\ presence[u].ttl > 0 => presence'[u].ttl = presence[u].ttl - 1
                     /\ presence[u].ttl <= 1
                           => presence'[u].ttl = 0 /\ presence'[u].status = ""]_vars

\* a session of u that was never unregistered is connected, in userClients[u]
\* and reading frames, and one TTL after the last write the record is absent
C18_Witness ==
    \E c \in Clients :
        /\ identified[c] /\ ~closed[c] /\ conn[c] = "open" /\ rpc[c] = "read"
        /\ c \in userClients[userID[c]]
        /\ \A d \in Clients : userID[d] = userID[c] => ~closed[d]
        /\ ~PresenceExists(userID[c])
        /\ presence[userID[c]].wttl = 0

\* C19: a PresenceUpdate frame read by an identified session, with a payload
\* that decodes: a status other than online, idle, dnd and offline is answered
\* with the error frame 4000 and changes nothing else (not the session's status
\* or activity, not the presence record, no broadcast started); one of the four
\* sets the session's status and activity, writes the presence record of the
\* user with that status and activity and the full TTL, and starts one
\* broadcast of PRESENCE_UPDATE with that status.
C19_PresenceUpdate ==
    [][\A c \in Clients : \A msg \in {m \in PresenceMsgs : m.st # "?"} :
          (identified[c] /\ rpc[c] = "read" /\ ReadFrame(c, msg, TRUE))
             => IF msg.st \in {"online", "idle", "dnd", "offline"}
                THEN /\ status'[c] = msg.st /\ activity'[c] = msg.act
                     /\ \A d \in Clients \ {c} :
                           status'[d] = status[d] /\ activity'[d] = activity[d]
                     /\ presence' = [presence EXCEPT ![userID[c]] =
                           [status |-> msg.st, activity |-> msg.act,
                            ttl |-> TTLTicks, wttl |-> TTLTicks]]
                     /\ tasks[UpdateTask(c)].type = "free"
                     /\ tasks' = [tasks EXCEPT ![UpdateTask(c)] =
                           Task("bcast", "srv", userID[c], Nil, msg.st, dbMembers(userID[c]))]
                     /\ send' = send
                ELSE /\ send' = [send EXCEPT ![c] = Enqueue(@, ErrorFrame(4000))]
                     /\ UNCHANGED AllButSend]_vars

\* one session was answered with the error 4000 and kept its status, another
\* went to dnd with the record of its user and its broadcast
C19_Witness ==
    \E c \in Clients : \E d \in Clients \ {c} :
        /\ identified[c] /\ send[c] = <<ErrorFrame(4000)>>
        /\ status[c] = "online" /\ tasks[UpdateTask(c)].type = "free"
        /\ identified[d] /\ status[d] = "dnd"
        /\ userID[d] # userID[c]
        /\ presence[userID[d]].status = "dnd" /\ presence[userID[c]].status = "online"
        /\ tasks[UpdateTask(d)].type = "bcast" /\ tasks[UpdateTask(d)].st = "dnd"

\* C20: an ingest frame (message create, edit, delete, ack) for conversation k
\* read by an identified session that is not subscribed to k is answered
\* with the error frame 4003 and changes nothing else: no row of the store,
\* no fan-out, no frame for any other session.
C20_UnsubscribedRejected ==
    /\ [][\A c \in Clients : \A msg \in IngestMsgs :
             (identified[c] /\ rpc[c] = "read" /\ msg.conv \notin conversations[c]
                 /\ \E dbok \in BOOLEAN : ReadFrame(c, msg, dbok))
                => /\ send' = [send EXCEPT ![c] = Enqueue(@, ErrorFrame(4003))]
                   /\ UNCHANGED AllButSend]_vars
    /\ [](\A c \in Clients : \A msg \in IngestMsgs :
             (identified[c] /\ rpc[c] = "read" /\ msg.conv \notin conversations[c])
                => ENABLED (/\ ReadFrame(c, msg, TRUE)
                            /\ send' = [send EXCEPT ![c] = Enqueue(@, ErrorFrame(4003))]
                            /\ UNCHANGED AllButSend))

\* the frames that edit or delete a message
ChangeMsgs == {m \in AuthorMsgs : m.op \in {"MessageEdit", "MessageDelete"}}

\* the rows of the table the frame addresses that carry its message id in its
\* channel or conversation, are not deleted and were written by user u
OwnRows(msg, u) ==
    IF msg.ch # Nil
    THEN {r \in channelMessages :
             r.id = msg.id /\ r.ch = msg.ch /\ r.author = u /\ ~r.deleted}
    ELSE {r \in directMessages :
             r.id = msg.id /\ r.conv = msg.conv /\ r.author = u /\ ~r.deleted}

\* C21: an edit or delete frame read by a session subscribed to its server
\* or conversation succeeds exactly when the store holds a row
\* with the frame's message id in the frame's channel or conversation whose
\* author is the caller: then that row is marked and the *_UPDATE or *_DELETE
\* fan-out begins; otherwise the caller is sent the error frame 4004, the
\* store is unchanged and no fan-out begins.
C21_AuthorOnly ==
    [][\A c \in Clients : \A msg \in ChangeMsgs :
          (identified[c] /\ rpc[c] = "read"
              /\ (msg.ch # Nil => msg.srv \in servers[c])
              /\ (msg.ch = Nil => msg.conv \in conversations[c])
              /\ ReadFrame(c, msg, TRUE))
             => LET own == OwnRows(msg, userID[c])
                    marked == {IF msg.op = "MessageEdit" THEN [r EXCEPT !.edited = TRUE]
                               ELSE [r EXCEPT !.deleted = TRUE] : r \in own}
                IN IF own = {}
                   THEN /\ send' = [send EXCEPT ![c] = Enqueue(@, ErrorFrame(4004))]
                        /\ UNCHANGED AllButSend
                   ELSE /\ channelMessages' =
                             IF msg.ch # Nil THEN (channelMessages \ own) \cup marked
                             ELSE channelMessages
                        /\ directMessages' =
                             IF msg.ch = Nil THEN (directMessages \ own) \cup marked
                             ELSE directMessages
                        /\ rpc'[c] = "typing"
                        /\ fo'[c].idx = (IF msg.ch # Nil THEN "server" ELSE "conv")
                        /\ fo'[c].id = (IF msg.ch # Nil THEN msg.srv ELSE msg.conv)
                        /\ fo'[c].ev \in {"CHANNEL_MESSAGE_UPDATE", "CHANNEL_MESSAGE_DELETE",
                                          "DM_MESSAGE_UPDATE", "DM_MESSAGE_DELETE"}
                        /\ send' = send]_vars

\* a session has been sent the error 4004 while the store holds a message of
\* another user, neither edited nor deleted, and no fan-out is under way
C21_Witness ==
    \E c \in Clients :
        /\ identified[c] /\ rpc[c] = "read" /\ send[c] = <<ErrorFrame(4004)>>
        /\ \E r \in channelMessages \cup directMessages :
               r.author # userID[c] /\ ~r.edited /\ ~r.deleted
        /\ \A d \in Clients : identified[d] /\ rpc[d] = "read"
        /\ \A th \in Threads : fo[th] = NoFo

\* the events that announce a new message
CreateEvents == {"CHANNEL_MESSAGE_CREATE", "CHANNEL_MESSAGE_NOTIFY",
                 "DM_MESSAGE_CREATE", "DM_MESSAGE_NOTIFY"}

\* the store holds a row with this id
Stored(id) == \E r \in channelMessages \cup directMessages : r.id = id

\* C22: a frame that announces a new message, in a send queue or handed to
\* Send by a fan-out, carries the id of a row the store holds, and a fan-out
\* of such frames runs only for a stored row; and when the store fails the
\* write of a create frame from a subscribed session, the sender is sent the
\* error frame 5000 and nothing else changes: no row, no fan-out, no frame
\* for any other session.
C22_PersistThenDispatch ==
    /\ [](/\ \A c \in Clients : \A i \in 1..Len(send[c]) :
                send[c][i].t \in CreateEvents => Stored(send[c][i].d)
          /\ \A th \in Threads :
                /\ fo[th] # NoFo /\ fo[th].mode \in {"channel", "dm"} => Stored(fo[th].d)
                /\ \A x \in Clients : \A i \in 1..Len(fo[th].log[x]) :
                      fo[th].log[x][i].t \in CreateEvents => Stored(fo[th].log[x][i].d)
          /\ \A c \in Clients : rpc[c] \in {"chanDisp", "dmDisp"} => Stored(rmsg[c].id))
    /\ [][\A c \in Clients : \A msg \in {m \in AuthorMsgs : m.op = "MessageCreate"} :
             (identified[c] /\ rpc[c] = "read"
                 /\ (msg.ch # Nil => msg.srv \in servers[c])
                 /\ (msg.ch = Nil => msg.conv \in conversations[c])
                 /\ ReadFrame(c, msg, FALSE))
                => /\ send' = [send EXCEPT ![c] = Enqueue(@, ErrorFrame(5000))]
                   /\ UNCHANGED AllButSend]_vars

\* a frame announcing the stored message is in the queue of one session and
\* the error 5000 in the queue of another, whose create the store refused
C22_Witness ==
    \E c \in Clients : \E d \in Clients \ {c} :
        /\ send[c] # <<>> /\ send[c][1].t \in CreateEvents /\ Stored(send[c][1].d)
        /\ send[d] = <<ErrorFrame(5000)>>

\* C23: the send queue of a session never holds more than SendCap frames; the
\* contents of a full queue change only by the write pump taking its first
\* frame; and a reader whose own queue is full is not held up by Send: its
\* reply to a frame that is not JSON is a step it can take, which leaves the
\* queue, the indices of the hub, the connection and everything else as they
\* were.
C23_SendDropsWhenFull ==
    /\ [](\A c \in Clients : Len(send[c]) <= SendCap)
    /\ [][\A c \in Clients :
             (Len(send[c]) = SendCap /\ send'[c] # send[c])
                => wpc[c] = "select" /\ send'[c] = Tail(send[c])]_vars
    /\ [](\A c \in Clients :
             (rpc[c] = "read" /\ Len(send[c]) = SendCap)
                => ENABLED (BadJSON(c) /\ UNCHANGED vars))

\* the queue of an identified session is full with the answer to its second
\* Identify: the session is still registered, connected and reading
C23_Witness ==
    \E c \in Clients :
        /\ Len(send[c]) = SendCap /\ send[c][1] = ErrorFrame(4003)
        /\ c \in clients /\ identified[c] /\ conn[c] = "open" /\ ~closed[c]
        /\ rpc[c] = "read"

\* C25: a frame that is not JSON is answered with the error frame 4000, and a
\* frame with an unknown opcode read by an identified session with the error
\* frame 4002; either way nothing else changes: the session stays in every
\* index of the hub, its identified flag, subscriptions and focus and the
\* presence records are as before, the connection stays open, and the reader
\* is back at its read, where it can take the next frame.
C25_MalformedKeepsSession ==
    /\ [][\A c \in Clients :
             /\ (rpc[c] = "read" /\ BadJSON(c))
                   => /\ send' = [send EXCEPT ![c] = Enqueue(@, ErrorFrame(4000))]
                      /\ UNCHANGED AllButSend
             /\ (identified[c] /\ rpc[c] = "read"
                    /\ \E msg \in UnknownMsgs : ReadFrame(c, msg, TRUE))
                   => /\ send' = [send EXCEPT ![c] = Enqueue(@, ErrorFrame(4002))]
                      /\ UNCHANGED AllButSend]_vars
    /\ [](\A c \in Clients :
             (rpc[c] = "read" /\ send[c] # <<>>
                 /\ send[c][Len(send[c])] \in {ErrorFrame(4000), ErrorFrame(4002)})
                => ENABLED ReadFrame(c, HeartbeatMsg, TRUE))

\* an identified session with a focus and a presence record was answered with
\* 4002, another with 4000, and both are registered, connected and reading
C25_Witness ==
    \E c \in Clients : \E d \in Clients \ {c} :
        /\ send[c] = <<ErrorFrame(4002)>> /\ send[d] = <<ErrorFrame(4000)>>
        /\ identified[c] /\ c \in userClients[userID[c]]
        /\ focusedConversation[c] # Nil /\ PresenceExists(userID[c])
        /\ {c, d} \subseteq clients
        /\ conn[c] = "open" /\ conn[d] = "open" /\ rpc[c] = "read" /\ rpc[d] = "read"

\* C24: the send queue of a session changes only at its ends: a Send appends
\* one frame behind the frames already there and writes nothing, and the write
\* pump takes the oldest frame, which on an open connection it writes behind
\* the frames already in the message under way (the last frame of a batch
\* closes the message). The frames counted for a batch are in the queue until
\* they are written, and frames that arrive meanwhile stay behind them.
C24_WriterFIFO ==
    /\ [][\A c \in Clients :
             send'[c] # send[c]
                => \/ /\ Len(send'[c]) = Len(send[c]) + 1
                      /\ SubSeq(send'[c], 1, Len(send[c])) = send[c]
                      /\ wbuf'[c] = wbuf[c] /\ wn'[c] = wn[c]
                   \/ /\ send'[c] = Tail(send[c])
                      /\ wpc[c] \in {"select", "batch"}
                      /\ (wpc[c] = "batch" /\ wn[c] > 1)
                            => wbuf'[c] = Append(wbuf[c], Head(send[c]))
                      /\ (wpc[c] = "select" /\ conn[c] = "open" /\ Len(send[c]) > 1)
                            => wbuf'[c] = <<Head(send[c])>>]_vars
    /\ [](\A c \in Clients :
             /\ wpc[c] = "batch" => wn[c] \in 1..Len(send[c]) /\ wbuf[c] # <<>>
             /\ wpc[c] # "batch" => wbuf[c] = <<>>)

\* the write pump is in a batch: it has written the answer 4000, the answer
\* 4001 counted for the batch is next, and a frame sent since waits behind it
C24_Witness ==
    \E c \in Clients :
        /\ wpc[c] = "batch" /\ conn[c] = "open"
        /\ wbuf[c] = <<ErrorFrame(4000)>>
        /\ wn[c] = 1 /\ send[c] = <<ErrorFrame(4001), ErrorFrame(4000)>>

\* the session is torn down: both pumps have returned, the connection and the
\* send queue are closed and the hub has forgotten the session
TornDown(c) ==
    /\ rpc[c] = "exit" /\ wpc[c] = "exit"
    /\ conn[c] = "closed" /\ closed[c]
    /\ c \notin clients

\* C26: once the reader of a session has left its loop on an error, or its
\* writer has returned on a write or keepalive error, the session is torn down
\* in the end: the reader returns, the hub handles the unregister and closes
\* the send queue, and the writer returns. The hub handles an unregister
\* without waiting and is back at its select afterwards.
C26_TeardownCompletes ==
    /\ \A c \in Clients :
          (rpc[c] = "unreg" \/ (wpc[c] = "exit" /\ conn[c] = "closed")) ~> TornDown(c)
    /\ [](hubPc[1] = "unregister" => ENABLED HandleUnregister)
    /\ (hubPc[1] = "unregister") ~> (hubPc = <<"select", Nil>>)

\* every session was accepted and is torn down, its queue drained by the write
\* pump, and the hub is back at its select
C26_Witness ==
    /\ \A c \in Clients : TornDown(c) /\ send[c] = <<>>
    /\ hubPc = <<"select", Nil>>

\* C27 (as stated): a session that has not identified when pongWait has
\* passed since it was accepted is closed: past that time no unidentified
\* session is still reading from an open connection, whether or not it
\* answers the pings.
C27_IdentifyBeforeDeadline ==
    \A c \in Clients :
        (age[c] > ReadTicks /\ ~identified[c]) => ~(rpc[c] = "read" /\ conn[c] = "open")

\* C28 (as stated): a Heartbeat frame handled for an identified session gives
\* the session its full read deadline again, as a pong does.
C28_HeartbeatExtendsDeadline ==
    [][\A c \in Clients :
          (identified[c] /\ rpc[c] = "read" /\ conn[c] = "open"
              /\ ReadFrame(c, HeartbeatMsg, TRUE))
             => deadline'[c] = ReadTicks]_vars

\* C29 (as stated, its first half): in the state in which notifyNewGroupDM for
\* conversation k returns, every session that is in userClients[p] for a
\* participant p of k is in conversationClients[k], whatever sessions identify
\* or unregister while the call runs.
C29_NotifyCoversAllSessions ==
    [][\A k \in Convs :
          (tasks[GdmTask(k)].type = "groupdm" /\ tasks'[GdmTask(k)] = NoTask)
             => \A p \in dbParticipants'[k] : userClients'[p] \subseteq conversationClients'[k]]_vars

\* the events of the Send calls the notifier of conversation k has made for session c
Notified(k, c) == {fo[GdmTask(k)].log[c][i].t : i \in 1..Len(fo[GdmTask(k)].log[c])}

\* C30 (as stated): when notifyFriendAccepted(a, b, ...) for conversation k
\* returns, with the sessions of a and b connected and identified during the
\* whole call, it has sent FRIEND_REQUEST_ACCEPTED and DM_CREATE to every
\* session of a and of b and has subscribed each of them to k.
C30_FriendAcceptedToBoth ==
    [][\A k \in Convs :
          (tasks[GdmTask(k)].type = "friend" /\ tasks'[GdmTask(k)] = NoTask)
             => \A p \in dbParticipants[k] : \A c \in userClients[p] :
                   /\ {"FRIEND_REQUEST_ACCEPTED", "DM_CREATE"} \subseteq Notified(k, c)
                   /\ c \in conversationClients[k]
                   /\ k \in conversations[c]]_vars

\* every id the FocusChange frame msg names is in the subscription sets of c,
\* a channel id only together with a server id
FocusAllowed(c, msg) ==
    /\ msg.srv # Nil => msg.srv \in servers[c]
    /\ msg.conv # Nil => msg.conv \in conversations[c]
    /\ msg.ch # Nil => msg.srv # Nil

\* C31 (as stated): a FocusChange frame of an identified session takes effect
\* only if its server id is in the session's servers, its conversation id in
\* the session's conversations, and its channel id comes with a subscribed
\* server; any other FocusChange frame leaves the focus as it was and sends
\* nothing.
C31_FocusOnlyIfSubscribed ==
    [][\A c \in Clients : \A msg \in FocusMsgs :
          (identified[c] /\ rpc[c] = "read" /\ ~FocusAllowed(c, msg)
              /\ ReadFrame(c, msg, TRUE))
             => UNCHANGED <<focusVars, send>>]_vars

\* C32 (as stated): a fan-out ranges over a copy of the index entry made under
\* the read lock, so the sessions a finished range has produced are the ones
\* the entry held at the copy, whatever was subscribed or unregistered since,
\* and no write to the index meets the range: the runtime never ends the
\* process for a concurrent map iteration and map write.
C32_FanoutOverCopy ==
    /\ fatal # MapRace
    /\ \A th \in Threads : FoDone(th) => fo[th].vis = fo[th].snap

\* C33 (as stated): the HeartbeatAck sent in reply to a Heartbeat frame of an
\* identified session carries the timestamp of that frame.
C33_AckEchoesTimestamp ==
    [][\A c \in Clients : \A msg \in HeartbeatMsgs :
          (identified[c] /\ rpc[c] = "read" /\ Len(send[c]) < cap
              /\ ReadFrame(c, msg, TRUE))
             => send'[c] = Append(send[c], HeartbeatAck(msg.ts))]_vars

\* the positions of a reader inside handleIdentify, after RegisterIdentifiedClient
IdSteps == {"idSubS", "idPart", "idSubC", "idOnline", "idReady"}

\* C34: a query of LoadUserSubscriptions that fails does not end the Identify.
\* When the membership query fails the session is registered as its user all
\* the same and the handler goes on to the presence write with no
\* subscription; when the participants query fails the handler goes on with
\* the servers it has subscribed and no conversation. From there the session
\* is identified and in userClients of its user, SetOnline and then Ready can
\* run, and every DispatchToUser that begins has all of userClients[u], this
\* session included, as its recipients.
C34_LoadFailureNonFatal ==
    /\ [][\A c \in Clients :
             /\ (rpc[c] = "read" /\ ~identified[c]
                    /\ \E msg \in IdentifyMsgs :
                          msg.token \in Users /\ ReadFrame(c, msg, FALSE))
                   => /\ identified'[c] /\ c \in userClients'[userID'[c]]
                      /\ rpc'[c] = "idOnline"
                      /\ servers'[c] = {} /\ conversations'[c] = {}
                      /\ UNCHANGED <<send, presence, fatal>>
             /\ (rpc[c] = "idPart" /\ IdParticipants(c, FALSE))
                   => /\ rpc'[c] = "idOnline"
                      /\ UNCHANGED <<hubVars, cliVars, send, presence, fatal>>]_vars
    /\ [][\A th \in Threads :
             (fo[th].idx = "none" /\ fo'[th].idx = "user")
                => fo'[th].snap = userClients[fo'[th].id]]_vars
    /\ [](\A c \in Clients :
             /\ rpc[c] \in IdSteps
                   => identified[c] /\ c \in userClients[userID[c]]
             /\ (Live /\ rpc[c] = "idOnline") => ENABLED IdSetOnline(c)
             /\ (Live /\ rpc[c] = "idReady") => ENABLED IdReady(c))
    /\ [][\A c \in Clients :
             (rpc[c] = "idOnline" /\ rpc'[c] = "idReady")
                => /\ presence'[userID[c]].status = "online"
                   /\ presence'[userID[c]].ttl = TTLTicks]_vars

\* a session whose membership query failed is identified with no server
\* subscription, its user is online, its Ready frame is queued, and a
\* DispatchToUser of the group DM notifier has called Send for it
C34_Witness ==
    \E c \in Clients :
        /\ identified[c] /\ rpc[c] = "read" /\ c \in userClients[userID[c]]
        /\ servers[c] = {} /\ dbMembers(userID[c]) # {}
        /\ send[c] = <<OpFrame("Ready")>>
        /\ PresenceExists(userID[c])
        /\ \E k \in Convs : fo[GdmTask(k)].idx = "user" /\ fo[GdmTask(k)].log[c] # <<>>

\* C35: the hub's step for an unregister of a session that is not in
\* h.clients returns to the select and changes nothing else: no index, no
\* goroutine started, no presence record, the send queue neither written nor
\* closed again, and the process goes on: while the hub is at such an
\* unregister no channel is closed and nothing panics. The step can always be
\* taken.
C35_UnregisterIdempotent ==
    /\ [][(hubPc[1] = "unregister" /\ hubPc[2] \notin clients /\ hubPc' # hubPc)
             => /\ hubPc' = <<"select", Nil>>
                /\ UNCHANGED <<hubVars, cliVars, focusVars, presVars, chanVars, conn,
                               readVars, writeVars, tasks, fo, presence, dbVars, fatal>>]_vars
    /\ [][(hubPc[1] = "unregister" /\ hubPc[2] \notin clients)
             => fatal' = fatal /\ closed' = closed]_vars
    /\ [](Live /\ hubPc[1] = "unregister"
             => ENABLED (HandleUnregister /\ hubPc' = <<"select", Nil>>))

\* the hub has received the unregister of an identified session that it has
\* unregistered before, while another session of the same user is registered
C35_Witness ==
    \E c \in Clients : \E d \in Clients \ {c} :
        /\ hubPc = <<"unregister", c>>
        /\ c \notin clients /\ closed[c] /\ identified[c]
        /\ d \in userClients[userID[c]]


\* ------------------------------------------------------------- the locks

\* what the steps of this section leave alone
dataVars == <<hubVars, cliVars, focusVars, presVars, timeVars, cacheVars, dbServerMembers, cap, chanVars, conn, hubPc,
              readVars, writeVars, tasks, fo, presence, dbVars, fatal>>

\* the positions at which a goroutine has called Lock and waits for it
WantsHub(th) == lk[th].pc \in {"hW?", "hWn?"}
WantsClient(th, c) == lk[th].pc \in {"cW?", "hWn"} /\ lk[th].x = c
\* the locks a goroutine holds
HoldsHub(th) == mu.w = th \/ th \in mu.r
HoldsClient(th) == \E c \in Clients : cmu[c].w = th \/ th \in cmu[c].r

\* the lock calls a goroutine can start with no lock held. A ReadPump's
\* handlers: RegisterIdentifiedClient (h.mu.Lock), SubscribeTo* and
\* UnsubscribeFrom* (h.mu.Lock, then the session's mu.Lock), SendTo* and
\* GetUserClients (h.mu.RLock), the getters of a session (mu.RLock; of its own
\* session, or of a recipient in DispatchChannelMessage's loop), the setters
\* of its own session (mu.Lock). A REST handler: DispatchToUser and
\* GetUserClients (h.mu.RLock), SubscribeToConversation of any session.
\* broadcastPresenceChange: DispatchToServer, DispatchToConversation.
LockCalls(th) ==
    IF th \in Clients
    THEN {LkAt("hW?", th), LkAt("hWn?", th), LkAt("hR?", Nil), LkAt("cW?", th)}
         \cup {LkAt("cR?", x) : x \in Clients}
    ELSE IF th \in Notifiers
    THEN {LkAt("hR?", Nil)} \cup {LkAt("hWn?", x) : x \in Clients}
    ELSE IF th \in Broadcasters
    THEN {LkAt("hR?", Nil)}
    ELSE {}

\* where a goroutine is when it holds no lock and has no call under way
LkRest(th) == IF th = HubThread THEN LkAt("select", Nil) ELSE LkAt("idle", Nil)

\* handleWebSocket: the connection is upgraded, the handler reaches
\* hub.register <- client
LkConnect(c) ==
    /\ lk[c].pc = "off"
    /\ lk' = [lk EXCEPT ![c] = LkAt("reg", Nil)]
    /\ UNCHANGED <<mu, cmu, dataVars>>

\* hub.register <- client meets Run's select; Run goes on to h.mu.Lock(), the
\* handler starts ReadPump
LkRegister(c) ==
    /\ lk[c].pc = "reg"
    /\ lk[HubThread].pc = "select"
    /\ lk' = [lk EXCEPT ![c] = LkAt("idle", Nil), ![HubThread] = LkAt("hW?", c)]
    /\ UNCHANGED <<mu, cmu, dataVars>>

\* ReadPump's ReadMessage fails: the deferred c.hub.unregister <- c
LkReadFail(c) ==
    /\ lk[c].pc = "idle"
    /\ lk' = [lk EXCEPT ![c] = LkAt("unreg", Nil)]
    /\ UNCHANGED <<mu, cmu, dataVars>>

\* c.hub.unregister <- c meets Run's select; Run goes on to handleUnregister's
\* h.mu.Lock(), ReadPump returns
LkUnregister(c) ==
    /\ lk[c].pc = "unreg"
    /\ lk[HubThread].pc = "select"
    /\ lk' = [lk EXCEPT ![c] = LkAt("exit", Nil), ![HubThread] = LkAt("hW?", c)]
    /\ UNCHANGED <<mu, cmu, dataVars>>

\* a goroutine calls a method that locks
LkCall(th, call) ==
    /\ lk[th].pc = "idle"
    /\ call \in LockCalls(th)
    /\ lk' = [lk EXCEPT ![th] = call]
    /\ UNCHANGED <<mu, cmu, dataVars>>

\* h.mu.Lock() returns: no goroutine holds the mutex
HubLock(th) ==
    /\ WantsHub(th)
    /\ mu = FreeMu
    /\ mu' = [mu EXCEPT !.w = th]
    /\ lk' = [lk EXCEPT ![th].pc = IF lk[th].pc = "hW?" THEN "hW" ELSE "hWn"]
    /\ UNCHANGED <<cmu, dataVars>>

\* h.mu.Unlock()
HubUnlock(th) ==
    /\ lk[th].pc = "hW"
    /\ mu' = [mu EXCEPT !.w = Nil]
    /\ lk' = [lk EXCEPT ![th] = LkRest(th)]
    /\ UNCHANGED <<cmu, dataVars>>

\* h.mu.RLock() returns: no writer holds the mutex and none waits for it
HubRLock(th) ==
    /\ lk[th].pc = "hR?"
    /\ mu.w = Nil
    /\ \A t \in LockThreads : ~WantsHub(t)
    /\ mu' = [mu EXCEPT !.r = @ \cup {th}]
    /\ lk' = [lk EXCEPT ![th].pc = "hR"]
    /\ UNCHANGED <<cmu, dataVars>>

\* h.mu.RUnlock(): SendTo* ranges over the sessions and calls Send after it
HubRUnlock(th) ==
    /\ lk[th].pc = "hR"
    /\ mu' = [mu EXCEPT !.r = @ \ {th}]
    /\ lk' = [lk EXCEPT ![th] = LkRest(th)]
    /\ UNCHANGED <<cmu, dataVars>>

\* c.mu.Lock() returns, in a setter or in Client.SubscribeX under h.mu
ClientLock(th) ==
    /\ lk[th].pc \in {"cW?", "hWn"}
    /\ cmu[lk[th].x] = FreeMu
    /\ cmu' = [cmu EXCEPT ![lk[th].x].w = th]
    /\ lk' = [lk EXCEPT ![th].pc = IF lk[th].pc = "cW?" THEN "cW" ELSE "hWc"]
    /\ UNCHANGED <<mu, dataVars>>

\* a setter that calls a method of the hub before its deferred c.mu.Unlock()
ClientUnlockAfterHub(th) ==
    /\ lk[th].pc \in {"cW", "hWc"}
    /\ IF lk[th].pc = "cW"
       THEN /\ lk' = [lk EXCEPT ![th].pc = "hW?"]
            /\ UNCHANGED cmu
       ELSE /\ cmu' = [cmu EXCEPT ![lk[th].x].w = Nil]
            /\ lk' = [lk EXCEPT ![th] = LkAt("hW", lk[th].x)]
    /\ UNCHANGED <<mu, dataVars>>

\* c.mu.Unlock(): a setter returns, Client.SubscribeX returns to the hub's
\* method, which still holds h.mu
ClientUnlock(th) ==
    /\ lk[th].pc \in {"cW", "hWc"}
    /\ cmu' = [cmu EXCEPT ![lk[th].x].w = Nil]
    /\ lk' = [lk EXCEPT ![th] = IF lk[th].pc = "cW" THEN LkRest(th)
                                 ELSE LkAt("hW", lk[th].x)]
    /\ UNCHANGED <<mu, dataVars>>

\* c.mu.RLock() returns
ClientRLock(th) ==
    /\ lk[th].pc = "cR?"
    /\ cmu[lk[th].x].w = Nil
    /\ \A t \in LockThreads : ~WantsClient(t, lk[th].x)
    /\ cmu' = [cmu EXCEPT ![lk[th].x].r = @ \cup {th}]
    /\ lk' = [lk EXCEPT ![th].pc = "cR"]
    /\ UNCHANGED <<mu, dataVars>>

\* c.mu.RUnlock()
ClientRUnlock(th) ==
    /\ lk[th].pc = "cR"
    /\ cmu' = [cmu EXCEPT ![lk[th].x].r = @ \ {th}]
    /\ lk' = [lk EXCEPT ![th] = LkRest(th)]
    /\ UNCHANGED <<mu, dataVars>>

NextLocks ==
    \/ \E c \in Clients : LkConnect(c)
    \/ \E c \in Clients : LkRegister(c)
    \/ \E c \in Clients : LkReadFail(c)
    \/ \E c \in Clients : LkUnregister(c)
    \/ \E th \in LockThreads : \E call \in LockCalls(th) : LkCall(th, call)
    \/ \E th \in LockThreads : HubLock(th)
    \/ \E th \in LockThreads : HubUnlock(th)
    \/ \E th \in LockThreads : HubRLock(th)
    \/ \E th \in LockThreads : HubRUnlock(th)
    \/ \E th \in LockThreads : ClientLock(th)
    \/ \E th \in LockThreads : ClientUnlock(th)
    \/ \E th \in LockThreads : ClientRLock(th)
    \/ \E th \in LockThreads : ClientRUnlock(th)

\* the step of a goroutine whose lock call, unlock call or channel send is
\* under way; it has one such step at most, by its position
LkStep(th) ==
    \/ HubLock(th) \/ HubUnlock(th) \/ HubRLock(th) \/ HubRUnlock(th)
    \/ ClientLock(th) \/ ClientUnlock(th) \/ ClientRLock(th) \/ ClientRUnlock(th)
    \/ (th \in Clients /\ (LkRegister(th) \/ LkUnregister(th)))

\* sync.Mutex hands a lock to a goroutine that has waited for it (starvation
\* mode), a writer that waits keeps new readers out, Unlock and RUnlock never
\* block, and Run is back at its select after each case, where it takes a
\* sender that waits
FairLocks == \A th \in LockThreads : SF_vars(LkStep(th))

\* the locks do not depend on the rows of the durable store
InitLocks == Init /\ dbParticipants = [k \in Convs |-> Users]

SpecLocks == InitLocks /\ [][NextLocks]_vars /\ FairLocks

\* a goroutine that waits: for a lock, or at a send on a channel of the hub
LkWaits(th) == lk[th].pc \in {"hW?", "hWn?", "hR?", "cW?", "cR?", "hWn", "reg", "unreg"}
\* the steps that let a goroutine that waits go on, or release a lock
LkProgress == \E th \in LockThreads : LkStep(th)

\* C36: the locks never deadlock: a goroutine that asks for Hub.mu holds no
\* Client.mu (the order is hub first, session second), a goroutine at a send
\* on hub.register or hub.unregister and Run at its select hold no lock,
\* whenever a goroutine waits some goroutine can step, and every register and
\* unregister request that was sent is received by Run
C36_NoDeadlock ==
    /\ [](\A th \in LockThreads :
            /\ lk[th].pc \in {"hW?", "hWn?", "hR?"} => ~HoldsClient(th)
            /\ lk[th].pc \in {"reg", "unreg", "select"} => ~HoldsHub(th) /\ ~HoldsClient(th))
    /\ []((\E th \in LockThreads : LkWaits(th)) => ENABLED LkProgress)
    /\ \A c \in Clients : (lk[c].pc = "reg") ~> (lk[c].pc = "idle")
    /\ \A c \in Clients : (lk[c].pc = "unreg") ~> (lk[c].pc = "exit")

\* a session waits at its unregister send while Run holds Hub.mu, a REST
\* handler waits for Hub.mu, and some goroutine holds a session's mutex
C36_Witness ==
    /\ \E c \in Clients : lk[c].pc = "unreg"
    /\ mu.w = HubThread
    /\ \E th \in Notifiers : lk[th].pc = "hWn?"
    /\ \E c \in Clients : cmu[c] # FreeMu


\* C37: Ready is the first frame of an identified session: while a session is
\* between RegisterIdentifiedClient and the send of its Ready frame, its send
\* queue holds no Dispatch frame of an event
C37_ReadyFirst ==
    \A c \in Clients :
        rpc[c] \in IdSteps => \A i \in 1..Len(send[c]) : send[c][i].t = ""


\* ------------------------------------------------------------- the server of a channel

\* frames that create, edit or delete a message of a channel, with payloads
\* that decode and any server_id
CrossMsgs ==
    {m \in {[Msg(op, Nil, ch, srv, Nil, FALSE) EXCEPT !.id = i] :
                op \in AuthorOps, ch \in Channels, srv \in Servers, i \in 0..MaxMsgs} :
        (m.op = "MessageCreate") <=> (m.id = Nil)}

\* sessions stay connected, create messages in the
\* channels, edit and delete them, and the write pumps drain the queues
NextCross ==
    \/ \E c \in Clients : Live /\ Accept(c)
    \/ Live /\ RunRegister
    \/ \E c \in Clients : \E msg \in IdentifyMsgs :
           Live /\ ~identified[c] /\ msg.token \in Users /\ ReadFrame(c, msg, TRUE)
    \/ \E c \in Clients : Live /\ IdSubscribeServer(c)
    \/ \E c \in Clients : Live /\ IdParticipants(c, TRUE)
    \/ \E c \in Clients : Live /\ IdSubscribeConversation(c)
    \/ \E c \in Clients : Live /\ IdSetOnline(c)
    \/ \E c \in Clients : Live /\ IdReady(c)
    \/ \E c \in Clients : \E msg \in CrossMsgs :
           Live /\ identified[c] /\ ReadFrame(c, msg, TRUE)
    \/ \E th \in Threads : Live /\ FoStep(th)
    \/ \E c \in Clients : Live /\ TypingDone(c)
    \/ \E c \in Clients : Live /\ ChanDispatch(c)
    \/ \E c \in Clients : Live /\ ChanDone(c)
    \/ \E c \in Clients : Live /\ WriteRecv(c)

\* every user is a member of every server and takes part in every conversation
InitCross ==
    /\ InitStore(SendCap, [u \in Users |-> Servers])
    /\ dbParticipants = [k \in Convs |-> Users]

SpecCross == InitCross /\ [][NextCross]_vars

\* C38: an edit or a delete of a channel message is dispatched to the sessions
\* of the server that owns the message's channel, whatever server_id the frame
\* carries
C38_ChangeToOwningServer ==
    \A th \in Threads :
        fo[th].ev \in {"CHANNEL_MESSAGE_UPDATE", "CHANNEL_MESSAGE_DELETE"}
            => fo[th].idx = "server" /\ fo[th].id = ChannelServer(fo[th].arg)


\* ------------------------------------------------------------- UserCache

\* what the steps of the cache leave alone
gatewayVars == <<hubVars, cliVars, focusVars, presVars, timeVars, lockVars, dbServerMembers, cap, chanVars, conn,
                 hubPc, readVars, writeVars, tasks, fo, presence, dbVars, fatal>>

\* UserCache.Set: uc.cache[userID] = user, and a goroutine that sleeps ttl and
\* then deletes the key
Set(u) ==
    /\ cache' = cache \cup {u}
    /\ expiry' = expiry \cup {[key |-> u, left |-> CacheTTL]}
    /\ lastSet' = [lastSet EXCEPT ![u] = 0]

\* GetUserFromRequest: UserCacheInstance.Get misses, the handler queries the
\* users table (a hit returns the cached row and changes nothing)
GetMiss(r, u) ==
    /\ req[r] = Nil
    /\ u \notin cache
    /\ req' = [req EXCEPT ![r] = u]
    /\ UNCHANGED <<cache, expiry, lastSet, gatewayVars>>

\* GetUserFromRequest: the row is found, UserCacheInstance.Set(userID, user)
SetAfterMiss(r) ==
    /\ req[r] # Nil
    /\ Set(req[r])
    /\ req' = [req EXCEPT ![r] = Nil]
    /\ UNCHANGED gatewayVars

\* UserCache.Delete
Delete(u) ==
    /\ u \in cache
    /\ cache' = cache \ {u}
    /\ lastSet' = [lastSet EXCEPT ![u] = Never]
    /\ UNCHANGED <<expiry, req, gatewayVars>>

\* UserCache.Clear
Clear ==
    /\ cache # {}
    /\ cache' = {}
    /\ lastSet' = [u \in Users |-> Never]
    /\ UNCHANGED <<expiry, req, gatewayVars>>

\* the goroutine of a Set wakes from time.Sleep(uc.ttl): delete(uc.cache, userID)
ExpiryFire(t) ==
    /\ t \in expiry
    /\ t.left = 0
    /\ cache' = cache \ {t.key}
    /\ expiry' = expiry \ {t}
    /\ UNCHANGED <<req, lastSet, gatewayVars>>

\* one tick of the clock: the goroutines that sleep have one tick less to go
CacheTick ==
    /\ \E t \in expiry : t.left > 0
    /\ expiry' = {[t EXCEPT !.left = IF @ > 0 THEN @ - 1 ELSE 0] : t \in expiry}
    /\ lastSet' = [u \in Users |-> IF lastSet[u] < CacheTTL THEN lastSet[u] + 1 ELSE lastSet[u]]
    /\ UNCHANGED <<cache, req, gatewayVars>>

NextCache ==
    \/ \E r \in Clients : \E u \in Users : GetMiss(r, u)
    \/ \E r \in Clients : SetAfterMiss(r)
    \/ \E u \in Users : Delete(u)
    \/ Clear
    \/ \E t \in expiry : ExpiryFire(t)
    \/ CacheTick

SpecCache == InitLocks /\ [][NextCache]_vars

\* C40: an entry of the user cache stays retrievable for the full ttl after
\* its latest Set unless Delete or Clear removes it: a key whose latest Set is
\* less than the ttl ago, with no Delete or Clear since, is in the map
C40_EntryLivesFullTTL ==
    \A u \in Users : lastSet[u] < CacheTTL => u \in cache


\* ------------------------------------------------------------- sessions that have not identified

\* A new group DM among sessions that come and identify, while sessions that
\* have not identified send frames of every opcode, frames that are not JSON
\* and Identify frames with tokens of no user
NextStranger ==
    \/ \E c \in Clients : Live /\ Accept(c)
    \/ Live /\ RunRegister
    \/ \E c \in Clients : \E msg \in IdentifyMsgs :
           Live /\ ~identified[c] /\ ReadFrame(c, msg, TRUE)
    \/ \E c \in Clients : Live /\ IdSubscribeServer(c)
    \/ \E c \in Clients : Live /\ IdParticipants(c, TRUE)
    \/ \E c \in Clients : Live /\ IdSubscribeConversation(c)
    \/ \E c \in Clients : Live /\ IdSetOnline(c)
    \/ \E c \in Clients : Live /\ IdReady(c)
    \/ \E th \in Threads : Live /\ FoStep(th)
    \/ \E k \in Convs : \E u \in Users : \E fr \in SUBSET (Users \ {u}) :
           Live /\ CreateGroupDM(k, u, fr)
    \/ \E t \in TaskIds : Live /\ GdmDispatch(t)
    \/ \E t \in TaskIds : Live /\ GdmGetClients(t)
    \/ \E t \in TaskIds : Live /\ GdmSubscribe(t)
    \/ \E c \in Clients : \E msg \in {m \in OtherMsgs : WellFormed(m) /\ ~m.nonce} :
           Live /\ ~identified[c] /\ ReadFrame(c, msg, TRUE)
    \/ \E c \in Clients : Live /\ ~identified[c] /\ BadJSON(c)

SpecStranger == Init /\ [][NextStranger]_vars

\* the frames a session that has not identified is sent
StrangerFrames(f) == f.s = "error" \/ (f.op \in {"InvalidSession", "Ready"} /\ f.t = "")

\* C39: a session that has not identified is in no set of userClients,
\* serverClients or conversationClients, has no subscription, is produced by no
\* fan-out, and a frame enqueued to it is an error frame, InvalidSession or Ready
C39_UnidentifiedNoRecipient ==
    /\ [](\A c \in Clients : ~identified[c] =>
            /\ \A u \in Users : c \notin userClients[u]
            /\ \A v \in Servers : c \notin serverClients[v]
            /\ \A k \in Convs : c \notin conversationClients[k]
            /\ servers[c] = {} /\ conversations[c] = {}
            /\ \A th \in Threads : c \notin fo[th].snap \cup fo[th].vis
            /\ \A i \in 1..Len(send[c]) : StrangerFrames(send[c][i]))
    /\ [][\A c \in Clients :
            (~identified[c] /\ Len(send'[c]) > Len(send[c]))
                => StrangerFrames(send'[c][Len(send'[c])])]_vars

\* a session that has not identified holds an error frame in its queue while
\* a fan-out has produced a session of a user
C39_Witness ==
    \E c \in Clients : \E th \in Threads :
        /\ ~identified[c] /\ c \in clients
        /\ Len(send[c]) > 0 /\ send[c][1].s = "error"
        /\ fo[th].vis # {}

====
